---- MODULE Spec2Model ----
(***************************************************************************)
(* Model of the complexity estimation and fusion engine:                   *)
(*   backend/analyzer.py            TimeComplexityAnalyzer (rule-based)    *)
(*   ml_integration/hybrid_analyzer.py  HybridTimeComplexityAnalyzer       *)
(*                                                                         *)
(* Confidences are floats in [0,1] in the source; here they are integers   *)
(* in thousandths (0.45 is 450).  Every confidence the model draws is a    *)
(* multiple of 20, so the mean of two of them is an exact integer.         *)
(* Complexity labels are written in ASCII: "O(n^2)", "O(n^3)" and "O(2^n)" *)
(* are the source's labels with a superscript 2, 3 and n.                  *)
(***************************************************************************)
EXTENDS Integers, Sequences, FiniteSets, TLC

VARIABLES
    pc,                 \* "idle" | "done": position of the hybrid analyze call
    ml_enabled,         \* HybridTimeComplexityAnalyzer.ml_enabled
    STRICT_GUARDRAILS,  \* HybridTimeComplexityAnalyzer.STRICT_GUARDRAILS
    rule_result,        \* what rule_based_analyzer.analyze returned
    ml_result,          \* what ml_analyzer.predict_complexity returned (or absent)
    composite,          \* the set of composite flags _composite_signals asserted
    final_result,       \* the verdict returned by HybridTimeComplexityAnalyzer.analyze
    rpc,                \* "idle" | "done": position of the rule-based analyze call
    code,               \* the source text given to TimeComplexityAnalyzer.analyze
    language,           \* the language given to TimeComplexityAnalyzer.analyze
    result,             \* the dict returned by TimeComplexityAnalyzer.analyze
    visitor,            \* counters of the PythonASTAnalyzer built by the running call
    ML_AVAILABLE,       \* main.ML_AVAILABLE: the import of ml_integration_simple succeeded
    ml_analyzer,        \* ml_integration_simple.ml_analyzer, the SimpleMLAnalyzer instance
    forest,             \* what RandomForestClassifier.fit yields on the training data
    pending,            \* the POST requests received and not yet answered
    responses,          \* the requests answered, with their responses, in order
    matched,            \* the results list given to _determine_time_complexity
    selected,           \* the class _determine_time_complexity returned
    cues,               \* the textual cues present in the code given to _composite_signals
    src_language,       \* the language given to _composite_signals
    tree,               \* the statements of the syntax tree PythonASTAnalyzer walks
    node,               \* the index of the next statement to visit
    frames,             \* the depths of the loops whose visit_For / visit_While has not returned
    walker              \* the PythonASTAnalyzer walking: loops, nested_loops, loop_depth

vars == <<pc, ml_enabled, STRICT_GUARDRAILS, rule_result, ml_result, composite,
          final_result, rpc, code, language, result, visitor,
          ML_AVAILABLE, ml_analyzer, forest, pending, responses,
          matched, selected, cues, src_language, tree, node, frames, walker>>

hybridVars == <<pc, ml_enabled, STRICT_GUARDRAILS, rule_result, ml_result,
                composite, final_result>>

ruleVars == <<rpc, code, language, result, visitor>>

serverVars == <<ML_AVAILABLE, ml_analyzer, forest, pending, responses>>

selectVars == <<matched, selected>>

signalVars == <<cues, src_language>>

walkVars == <<tree, node, frames, walker>>

callVars == <<selectVars, signalVars, walkVars>>

\* _determine_time_complexity is not being called on its own
NoSelect ==
    /\ matched = <<>>
    /\ selected = "None"

\* _composite_signals is not being called on its own
NoSignals ==
    /\ cues = {}
    /\ src_language = "None"

\* no PythonASTAnalyzer is being stepped through a tree
NoWalk ==
    /\ tree = <<>>
    /\ node = 0
    /\ frames = <<>>
    /\ walker = [loops |-> 0, nested_loops |-> 0, loop_depth |-> 0]

\* no helper is being called on its own
NoCall == NoSelect /\ NoSignals /\ NoWalk

\* the server is not started: no estimator is imported, no request is received
NoServer ==
    /\ ML_AVAILABLE = FALSE
    /\ ml_analyzer = [vectorizer |-> "unfitted", model |-> <<>>, is_trained |-> FALSE]
    /\ forest = <<>>
    /\ pending = {}
    /\ responses = <<>>

(***************************************************************************)
(* Bounds                                                                  *)
(***************************************************************************)
\* at most this many composite flags asserted for one piece of code
MaxFlags == 2

\* Python's None (a time or space override that is not set, a missing key)
None == "None"

\* a dictionary key that the returned dict does not carry
Absent == 0 - 1

Min(a, b) == IF a < b THEN a ELSE b

Max(a, b) == IF a > b THEN a ELSE b

\* Python's `a or b` on an optional label
OrElse(a, b) == IF a # None THEN a ELSE b

(***************************************************************************)
(* Rule-based suggestions (class-keyed part and language hints)            *)
(***************************************************************************)
\* _generate_suggestions: the table keyed on the time class, the
\* low-confidence block, then the language-specific hints (a sequence that
\* depends on substrings of the code only)
GenerateSuggestions(time_complexity, confidence, hints) ==
    (IF time_complexity = "O(2^n)" THEN <<"memoization", "cache_subproblems">> ELSE <<>>)
    \o (IF time_complexity = "O(n^2)" THEN <<"hash_lookup", "sort_then_binary_search">> ELSE <<>>)
    \o (IF time_complexity = "O(n log n)" THEN <<"try_single_pass">> ELSE <<>>)
    \o (IF time_complexity = "O(log n)" THEN <<"try_constant">> ELSE <<>>)
    \o (IF time_complexity = "O(n)" THEN <<"try_binary_search">> ELSE <<>>)
    \o (IF time_complexity = "O(1)" THEN <<"focus_on_space">> ELSE <<>>)
    \o (IF time_complexity = "Unknown" \/ confidence < 500
          THEN <<"unable_to_determine", "simplify", "check_nesting">> ELSE <<>>)
    \o hints

(***************************************************************************)
(* Guardrails                                                              *)
(***************************************************************************)
\* the keys of the comp dictionary, in the order _guardrail_corrections reads them
CompFlags == {"binary_search", "merge_sort", "dp_triply_nested", "bubble_triangular",
              "dp_2d_table", "permutations", "balanced_tree_loop", "linear_scan",
              "exp_recursive", "dp_1d_array", "triple_nested_loops"}

\* _guardrail_corrections with the last statement assigning s unconditionally
Corrections_Overwrite ==
    << [flag |-> "binary_search",       time |-> "O(log n)",   space |-> "O(1)",   keep |-> TRUE],
       [flag |-> "merge_sort",          time |-> "O(n log n)", space |-> "O(n)",   keep |-> FALSE],
       [flag |-> "dp_triply_nested",    time |-> "O(n^3)",     space |-> "O(n^2)", keep |-> TRUE],
       [flag |-> "bubble_triangular",   time |-> "O(n^2)",     space |-> "O(1)",   keep |-> TRUE],
       [flag |-> "dp_2d_table",         time |-> None,         space |-> "O(n^2)", keep |-> FALSE],
       [flag |-> "permutations",        time |-> "O(n!)",      space |-> "O(n)",   keep |-> TRUE],
       [flag |-> "balanced_tree_loop",  time |-> "O(n log n)", space |-> "O(n)",   keep |-> TRUE],
       [flag |-> "linear_scan",         time |-> "O(n)",       space |-> "O(1)",   keep |-> TRUE],
       [flag |-> "exp_recursive",       time |-> "O(2^n)",     space |-> "O(n)",   keep |-> FALSE],
       [flag |-> "dp_1d_array",         time |-> "O(n)",       space |-> "O(n)",   keep |-> FALSE],
       [flag |-> "triple_nested_loops", time |-> "O(n^3)",     space |-> "O(1)",   keep |-> FALSE] >>

\* _guardrail_corrections, its if statements in source order: the flag
\* tested, the value assigned to t (None: t is not assigned), the value
\* assigned to s, and whether the assignment to s is `s = s or value`
Corrections ==
    << [flag |-> "binary_search",       time |-> "O(log n)",   space |-> "O(1)",   keep |-> TRUE],
       [flag |-> "merge_sort",          time |-> "O(n log n)", space |-> "O(n)",   keep |-> FALSE],
       [flag |-> "dp_triply_nested",    time |-> "O(n^3)",     space |-> "O(n^2)", keep |-> TRUE],
       [flag |-> "bubble_triangular",   time |-> "O(n^2)",     space |-> "O(1)",   keep |-> TRUE],
       [flag |-> "dp_2d_table",         time |-> None,         space |-> "O(n^2)", keep |-> FALSE],
       [flag |-> "permutations",        time |-> "O(n!)",      space |-> "O(n)",   keep |-> TRUE],
       [flag |-> "balanced_tree_loop",  time |-> "O(n log n)", space |-> "O(n)",   keep |-> TRUE],
       [flag |-> "linear_scan",         time |-> "O(n)",       space |-> "O(1)",   keep |-> TRUE],
       [flag |-> "exp_recursive",       time |-> "O(2^n)",     space |-> "O(n)",   keep |-> FALSE],
       [flag |-> "dp_1d_array",         time |-> "O(n)",       space |-> "O(n)",   keep |-> FALSE],
       [flag |-> "triple_nested_loops", time |-> "O(n^3)",     space |-> "O(1)",   keep |-> TRUE] >>

RECURSIVE TimeAfter(_, _)
\* the value of t after the first k if statements
TimeAfter(comp, k) ==
    IF k = 0 THEN None
    ELSE IF Corrections[k].flag \in comp /\ Corrections[k].time # None
    THEN Corrections[k].time
    ELSE TimeAfter(comp, k - 1)

RECURSIVE SpaceAfter(_, _)
\* the value of s after the first k if statements
SpaceAfter(comp, k) ==
    IF k = 0 THEN None
    ELSE IF Corrections[k].flag \notin comp THEN SpaceAfter(comp, k - 1)
    ELSE IF Corrections[k].keep THEN OrElse(SpaceAfter(comp, k - 1), Corrections[k].space)
    ELSE Corrections[k].space

\* _guardrail_corrections keeping the first assignment to t instead of the last
GuardrailCorrections_First(comp) ==
    LET hits == { k \in DOMAIN Corrections :
                    Corrections[k].flag \in comp /\ Corrections[k].time # None }
    IN  [time |-> IF hits = {} THEN None
                  ELSE Corrections[CHOOSE k \in hits : \A j \in hits : k <= j].time,
         space |-> SpaceAfter(comp, Len(Corrections))]

\* _guardrail_corrections: (time_override, space_override), None when no change
GuardrailCorrections(comp) ==
    [time |-> TimeAfter(comp, Len(Corrections)),
     space |-> SpaceAfter(comp, Len(Corrections))]

(***************************************************************************)
(* Arbitration                                                             *)
(***************************************************************************)
\* _determine_final_complexity without the both-low branch: the ensemble's
\* guess is adopted when neither estimator is confident
DetermineFinalComplexity_Guess(rule_time, rule_space, rule_conf, ml_time, ml_space, ml_time_conf, ml_space_conf) ==
    LET ml_avg == (ml_time_conf + ml_space_conf) \div 2
    IN  IF ml_avg >= 800
        THEN [time |-> ml_time, space |-> ml_space,
              method |-> "ml_high_confidence", confidence |-> ml_avg]
        ELSE IF ml_avg < 450 /\ rule_conf >= 600
        THEN [time |-> rule_time, space |-> rule_space,
              method |-> "rule_based_fallback", confidence |-> rule_conf]
        ELSE [time |-> ml_time, space |-> ml_space,
              method |-> "ml_higher_confidence", confidence |-> ml_avg]

\* _determine_final_complexity with the high-confidence threshold at 0.9
DetermineFinalComplexity_High900(rule_time, rule_space, rule_conf, ml_time, ml_space, ml_time_conf, ml_space_conf) ==
    LET ml_avg == (ml_time_conf + ml_space_conf) \div 2
    IN  IF ml_avg >= 900
        THEN [time |-> ml_time, space |-> ml_space,
              method |-> "ml_high_confidence", confidence |-> ml_avg]
        ELSE IF ml_avg < 450 /\ rule_conf >= 600
        THEN [time |-> rule_time, space |-> rule_space,
              method |-> "rule_based_fallback", confidence |-> rule_conf]
        ELSE IF ml_avg < 450 /\ rule_conf < 600
        THEN [time |-> "Unknown", space |-> "Unknown",
              method |-> "uncertain", confidence |-> 400]
        ELSE [time |-> ml_time, space |-> ml_space,
              method |-> "ml_higher_confidence", confidence |-> ml_avg]

\* _determine_final_complexity whose last branch takes whichever estimator
\* reports the higher confidence
DetermineFinalComplexity_Higher(rule_time, rule_space, rule_conf, ml_time, ml_space, ml_time_conf, ml_space_conf) ==
    LET ml_avg == (ml_time_conf + ml_space_conf) \div 2
    IN  IF ml_avg >= 800
        THEN [time |-> ml_time, space |-> ml_space,
              method |-> "ml_high_confidence", confidence |-> ml_avg]
        ELSE IF ml_avg < 450 /\ rule_conf >= 600
        THEN [time |-> rule_time, space |-> rule_space,
              method |-> "rule_based_fallback", confidence |-> rule_conf]
        ELSE IF ml_avg < 450 /\ rule_conf < 600
        THEN [time |-> "Unknown", space |-> "Unknown",
              method |-> "uncertain", confidence |-> 400]
        ELSE IF rule_conf > ml_avg
        THEN [time |-> rule_time, space |-> rule_space,
              method |-> "ml_higher_confidence", confidence |-> rule_conf]
        ELSE [time |-> ml_time, space |-> ml_space,
              method |-> "ml_higher_confidence", confidence |-> ml_avg]

\* _determine_final_complexity: (final_time, final_space, method, confidence)
DetermineFinalComplexity(rule_time, rule_space, rule_conf, ml_time, ml_space, ml_time_conf, ml_space_conf) ==
    LET ml_avg == (ml_time_conf + ml_space_conf) \div 2
    IN  IF ml_avg >= 800
        THEN [time |-> ml_time, space |-> ml_space,
              method |-> "ml_high_confidence", confidence |-> ml_avg]
        ELSE IF ml_avg < 450 /\ rule_conf >= 600
        THEN [time |-> rule_time, space |-> rule_space,
              method |-> "rule_based_fallback", confidence |-> rule_conf]
        ELSE IF ml_avg < 450 /\ rule_conf < 600
        THEN [time |-> "Unknown", space |-> "Unknown",
              method |-> "uncertain", confidence |-> 400]
        ELSE [time |-> ml_time, space |-> ml_space,
              method |-> "ml_higher_confidence", confidence |-> ml_avg]

\* _combine_breakdowns: predict_complexity returns no 'model_agreement' key,
\* so the copy of the rule breakdown is returned unchanged
CombineBreakdowns(rule_breakdown, ml) == rule_breakdown

\* _combine_suggestions
CombineSuggestions(rule_suggestions, ml, final_time, final_space) ==
    rule_suggestions
    \o (IF ml.present /\ ml.time_confidence < 700
          THEN <<"ml_low_time_confidence", "provide_context">> ELSE <<>>)
    \o (IF ml.present /\ ml.space_confidence < 700
          THEN <<"ml_low_space_confidence", "check_data_structures">> ELSE <<>>)
    \o (IF final_time = "Unknown"
          THEN <<"both_uncertain", "add_comments">> ELSE <<>>)

\* the strict-mode confidence nudge of _combine_analyses (lines 105-115)
BoostedTimeConfidence(comp, ml_time, ml_time_confidence) ==
    LET c1 == IF "binary_search" \in comp /\ ml_time = "O(log n)"
                THEN Min(1000, ml_time_confidence + 100) ELSE ml_time_confidence
        c2 == IF "merge_sort" \in comp /\ ml_time = "O(n log n)"
                THEN Min(1000, c1 + 100) ELSE c1
        c3 == IF "dp_triply_nested" \in comp /\ ml_time = "O(n^3)"
                THEN Min(1000, c2 + 120) ELSE c2
        c4 == IF "bubble_triangular" \in comp /\ ml_time = "O(n^2)"
                THEN Min(1000, c3 + 80) ELSE c3
    IN  c4

\* the ml_result-is-None branch raising the confidence to 0.55 whether or not
\* a correction was made
CombineRuleOnly_Floor(rule, comp) ==
    LET corr == GuardrailCorrections(comp)
        fired == corr.time # None \/ corr.space # None
    IN  [time_complexity |-> OrElse(corr.time, rule.time_complexity),
         space_complexity |-> OrElse(corr.space, rule.space_complexity),
         breakdown |-> rule.breakdown,
         suggestions |-> rule.suggestions,
         confidence |-> rule.confidence,
         rule_based_confidence |-> Absent,
         analysis_method |-> IF fired THEN "rule_plus_guardrail" ELSE "rule_based",
         ml_confidence |-> 0,
         ensemble_confidence |-> Max(rule.confidence, 550)]

\* the ml_result-is-None branch keeping the tag 'rule_based' after a correction
CombineRuleOnly_Untagged(rule, comp) ==
    LET corr == GuardrailCorrections(comp)
        fired == corr.time # None \/ corr.space # None
    IN  [time_complexity |-> OrElse(corr.time, rule.time_complexity),
         space_complexity |-> OrElse(corr.space, rule.space_complexity),
         breakdown |-> rule.breakdown,
         suggestions |-> rule.suggestions,
         confidence |-> rule.confidence,
         rule_based_confidence |-> Absent,
         analysis_method |-> "rule_based",
         ml_confidence |-> 0,
         ensemble_confidence |-> Max(rule.confidence, IF fired THEN 550 ELSE 0)]

\* the ml_result-is-None branch raising the reported confidence as well
CombineRuleOnly_Boosted(rule, comp) ==
    LET corr == GuardrailCorrections(comp)
        fired == corr.time # None \/ corr.space # None
    IN  [time_complexity |-> OrElse(corr.time, rule.time_complexity),
         space_complexity |-> OrElse(corr.space, rule.space_complexity),
         breakdown |-> rule.breakdown,
         suggestions |-> rule.suggestions,
         confidence |-> Max(rule.confidence, IF fired THEN 550 ELSE 0),
         rule_based_confidence |-> Absent,
         analysis_method |-> IF fired THEN "rule_plus_guardrail" ELSE "rule_based",
         ml_confidence |-> 0,
         ensemble_confidence |-> Max(rule.confidence, IF fired THEN 550 ELSE 0)]

\* _combine_analyses, the branch taken when ml_result is None (lines 74-88)
CombineRuleOnly(rule, comp) ==
    LET corr == GuardrailCorrections(comp)
        fired == corr.time # None \/ corr.space # None
    IN  [time_complexity |-> OrElse(corr.time, rule.time_complexity),
         space_complexity |-> OrElse(corr.space, rule.space_complexity),
         breakdown |-> rule.breakdown,
         suggestions |-> rule.suggestions,
         confidence |-> rule.confidence,
         rule_based_confidence |-> Absent,
         analysis_method |-> IF fired THEN "rule_plus_guardrail" ELSE "rule_based",
         ml_confidence |-> 0,
         ensemble_confidence |-> Max(rule.confidence, IF fired THEN 550 ELSE 0)]

\* the ml_result-present branch applying the correction whatever the chosen
\* confidence is
CombineWithML_Ungated(rule, ml, comp, strict) ==
    LET ml_time_confidence ==
            IF strict
            THEN BoostedTimeConfidence(comp, ml.time_complexity, ml.time_confidence)
            ELSE ml.time_confidence
        d == DetermineFinalComplexity(
                 rule.time_complexity, rule.space_complexity, rule.confidence,
                 ml.time_complexity, ml.space_complexity,
                 ml_time_confidence, ml.space_confidence)
        corr == GuardrailCorrections(comp)
        soft == corr.time # None \/ corr.space # None
        time1 == IF soft /\ corr.time # None THEN corr.time ELSE d.time
        space1 == IF soft /\ corr.space # None THEN corr.space ELSE d.space
        method1 == IF soft THEN "guardrail_cpp" ELSE d.method
        conf1 == IF soft THEN Max(d.confidence, 550) ELSE d.confidence
        hardT == strict /\ corr.time # None /\ corr.time # time1
        time2 == IF hardT THEN corr.time ELSE time1
        method2 == IF hardT THEN "guardrail_enforced" ELSE method1
        conf2 == IF hardT THEN Max(conf1, 600) ELSE conf1
        hardS == strict /\ corr.space # None /\ corr.space # space1
        space2 == IF hardS THEN corr.space ELSE space1
        method3 == IF hardS THEN "guardrail_enforced" ELSE method2
        conf3 == IF hardS THEN Max(conf2, 600) ELSE conf2
    IN  [time_complexity |-> time2,
         space_complexity |-> space2,
         breakdown |-> CombineBreakdowns(rule.breakdown, ml),
         suggestions |-> CombineSuggestions(rule.suggestions, ml, time2, space2),
         confidence |-> Absent,
         rule_based_confidence |-> rule.confidence,
         analysis_method |-> method3,
         ml_confidence |-> (ml_time_confidence + ml.space_confidence) \div 2,
         ensemble_confidence |-> conf3]

\* the ml_result-present branch with strict mode deferring to an ensemble
\* whose confidence is at least 0.8
CombineWithML_Deferential(rule, ml, comp, strict) ==
    LET ml_time_confidence ==
            IF strict
            THEN BoostedTimeConfidence(comp, ml.time_complexity, ml.time_confidence)
            ELSE ml.time_confidence
        d == DetermineFinalComplexity(
                 rule.time_complexity, rule.space_complexity, rule.confidence,
                 ml.time_complexity, ml.space_complexity,
                 ml_time_confidence, ml.space_confidence)
        corr == GuardrailCorrections(comp)
        soft == d.confidence < 500 /\ (corr.time # None \/ corr.space # None)
        time1 == IF soft /\ corr.time # None THEN corr.time ELSE d.time
        space1 == IF soft /\ corr.space # None THEN corr.space ELSE d.space
        method1 == IF soft THEN "guardrail_cpp" ELSE d.method
        conf1 == IF soft THEN Max(d.confidence, 550) ELSE d.confidence
        hardT == strict /\ d.method # "ml_high_confidence" /\ corr.time # None /\ corr.time # time1
        time2 == IF hardT THEN corr.time ELSE time1
        method2 == IF hardT THEN "guardrail_enforced" ELSE method1
        conf2 == IF hardT THEN Max(conf1, 600) ELSE conf1
        hardS == strict /\ d.method # "ml_high_confidence" /\ corr.space # None /\ corr.space # space1
        space2 == IF hardS THEN corr.space ELSE space1
        method3 == IF hardS THEN "guardrail_enforced" ELSE method2
        conf3 == IF hardS THEN Max(conf2, 600) ELSE conf2
    IN  [time_complexity |-> time2,
         space_complexity |-> space2,
         breakdown |-> CombineBreakdowns(rule.breakdown, ml),
         suggestions |-> CombineSuggestions(rule.suggestions, ml, time2, space2),
         confidence |-> Absent,
         rule_based_confidence |-> rule.confidence,
         analysis_method |-> method3,
         ml_confidence |-> (ml_time_confidence + ml.space_confidence) \div 2,
         ensemble_confidence |-> conf3]

\* _combine_analyses, the branch taken when ml_result is present (lines 90-173)
CombineWithML(rule, ml, comp, strict) ==
    LET ml_time_confidence ==
            IF strict
            THEN BoostedTimeConfidence(comp, ml.time_complexity, ml.time_confidence)
            ELSE ml.time_confidence
        d == DetermineFinalComplexity(
                 rule.time_complexity, rule.space_complexity, rule.confidence,
                 ml.time_complexity, ml.space_complexity,
                 ml_time_confidence, ml.space_confidence)
        corr == GuardrailCorrections(comp)
        soft == d.confidence < 500 /\ (corr.time # None \/ corr.space # None)
        time1 == IF soft /\ corr.time # None THEN corr.time ELSE d.time
        space1 == IF soft /\ corr.space # None THEN corr.space ELSE d.space
        method1 == IF soft THEN "guardrail_cpp" ELSE d.method
        conf1 == IF soft THEN Max(d.confidence, 550) ELSE d.confidence
        hardT == strict /\ corr.time # None /\ corr.time # time1
        time2 == IF hardT THEN corr.time ELSE time1
        method2 == IF hardT THEN "guardrail_enforced" ELSE method1
        conf2 == IF hardT THEN Max(conf1, 600) ELSE conf1
        hardS == strict /\ corr.space # None /\ corr.space # space1
        space2 == IF hardS THEN corr.space ELSE space1
        method3 == IF hardS THEN "guardrail_enforced" ELSE method2
        conf3 == IF hardS THEN Max(conf2, 600) ELSE conf2
    IN  [time_complexity |-> time2,
         space_complexity |-> space2,
         breakdown |-> CombineBreakdowns(rule.breakdown, ml),
         suggestions |-> CombineSuggestions(rule.suggestions, ml, time2, space2),
         confidence |-> Absent,
         rule_based_confidence |-> rule.confidence,
         analysis_method |-> method3,
         ml_confidence |-> (ml_time_confidence + ml.space_confidence) \div 2,
         ensemble_confidence |-> conf3]

\* _combine_analyses
CombineAnalyses(rule, ml, comp, strict) ==
    IF ~ml.present THEN CombineRuleOnly(rule, comp)
    ELSE CombineWithML(rule, ml, comp, strict)

(***************************************************************************)
(* Inputs of the hybrid analyzer                                           *)
(***************************************************************************)
\* (time, space, confidence) triples TimeComplexityAnalyzer.analyze returns:
\* 0.3 + 0.1*loops + 0.2*recursive_calls from the syntax-tree walk, 0.4 from
\* the fallback scan, 0.8 / 0.9 / 0.95 from the signature tables
RuleTriples ==
    { <<"O(1)", "O(1)", 300>>,        \* walk, no loop
      <<"O(n)", "O(1)", 400>>,        \* walk, one loop; or fallback scan
      <<"O(1)", "O(n)", 400>>,        \* fallback scan, data structure
      <<"O(n^2)", "O(1)", 500>>,      \* walk, two nested loops
      <<"O(n)", "O(1)", 600>>,        \* walk, three loops in sequence
      <<"O(2^n)", "O(n)", 700>>,      \* walk, two recursive calls
      <<"O(log n)", "O(1)", 900>>,    \* signature, binary search
      <<"O(n)", "O(1)", 900>>,        \* signature, single loop
      <<"O(n log n)", "O(n)", 950>>,  \* signature, sort
      <<"O(n^2)", "O(1)", 950>> }     \* signature, nested loops

\* the breakdown and the language hints depend on the text only; two variants
RuleEstimates ==
    { [time_complexity |-> tr[1], space_complexity |-> tr[2], confidence |-> tr[3],
       breakdown |-> IF x THEN <<"evidence_a">> ELSE <<"evidence_a", "evidence_b">>,
       suggestions |-> GenerateSuggestions(tr[1], tr[3],
                           IF x THEN <<>> ELSE <<"language_hint">>)]
      : tr \in RuleTriples, x \in BOOLEAN }

\* the ensemble's top class and its probability, per axis
MLTimes == {"O(log n)", "O(n)", "O(n log n)", "O(n^2)", "O(n^3)"}

MLSpaces == {"O(1)", "O(n)"}

MLTimeConfs == {300, 560, 740, 900}

MLSpaceConfs == {300, 400, 800}

MLEstimates ==
    [present : {TRUE}, time_complexity : MLTimes, space_complexity : MLSpaces,
     time_confidence : MLTimeConfs, space_confidence : MLSpaceConfs]

\* ml_result = None
NoML ==
    [present |-> FALSE, time_complexity |-> "Unknown", space_complexity |-> "Unknown",
     time_confidence |-> 0, space_confidence |-> 0]

\* the flag sets _composite_signals can return: linear_scan is set only when
\* binary_search and bubble_triangular are not (lines 302-304)
CompositeSets ==
    { c \in SUBSET CompFlags :
        /\ Cardinality(c) <= MaxFlags
        /\ "linear_scan" \in c => c \cap {"binary_search", "bubble_triangular"} = {} }

NoResult ==
    [time_complexity |-> "None", space_complexity |-> "None", breakdown |-> <<>>,
     suggestions |-> <<>>, confidence |-> Absent, rule_based_confidence |-> Absent,
     analysis_method |-> "None", ml_confidence |-> Absent,
     ensemble_confidence |-> Absent]

NoRule ==
    [time_complexity |-> "None", space_complexity |-> "None", confidence |-> Absent,
     breakdown |-> <<>>, suggestions |-> <<>>]

(***************************************************************************)
(* HybridTimeComplexityAnalyzer                                            *)
(***************************************************************************)
\* __init__: models loaded or not, STRICT_GUARDRAILS read from the environment
Init ==
    /\ pc = "idle"
    /\ ml_enabled \in BOOLEAN
    /\ STRICT_GUARDRAILS \in BOOLEAN
    /\ rule_result = NoRule
    /\ ml_result = NoML
    /\ composite = {}
    /\ final_result = NoResult
    /\ rpc = "idle"
    /\ code = <<>>
    /\ language = "python"
    /\ result = NoRule
    /\ visitor = [loops |-> 0, nested_loops |-> 0, recursive_calls |-> 0]
    /\ NoServer
    /\ NoCall

\* analyze with ml_enabled false: ml_result stays None
AnalyzeRuleOnly ==
    /\ pc = "idle"
    /\ ~ml_enabled
    /\ \E rr \in RuleEstimates, comp \in CompositeSets :
          /\ rule_result' = rr
          /\ ml_result' = NoML
          /\ composite' = comp
          /\ final_result' = CombineAnalyses(rr, NoML, comp, STRICT_GUARDRAILS)
    /\ pc' = "done"
    /\ UNCHANGED <<ml_enabled, STRICT_GUARDRAILS, ruleVars, serverVars, callVars>>

\* analyze with ml_enabled true and predict_complexity raising: the except
\* clause leaves ml_result None
AnalyzeMLRaised ==
    /\ pc = "idle"
    /\ ml_enabled
    /\ \E rr \in RuleEstimates, comp \in CompositeSets :
          /\ rule_result' = rr
          /\ ml_result' = NoML
          /\ composite' = comp
          /\ final_result' = CombineAnalyses(rr, NoML, comp, STRICT_GUARDRAILS)
    /\ pc' = "done"
    /\ UNCHANGED <<ml_enabled, STRICT_GUARDRAILS, ruleVars, serverVars, callVars>>

\* analyze with ml_enabled true and predict_complexity returning an estimate
AnalyzeWithML ==
    /\ pc = "idle"
    /\ ml_enabled
    /\ \E rr \in RuleEstimates, ml \in MLEstimates, comp \in CompositeSets :
          /\ rule_result' = rr
          /\ ml_result' = ml
          /\ composite' = comp
          /\ final_result' = CombineAnalyses(rr, ml, comp, STRICT_GUARDRAILS)
    /\ pc' = "done"
    /\ UNCHANGED <<ml_enabled, STRICT_GUARDRAILS, ruleVars, serverVars, callVars>>

\* the verdict is handed to the caller; the analyzer keeps nothing of the call
Return ==
    /\ pc = "done"
    /\ pc' = "idle"
    /\ rule_result' = NoRule
    /\ ml_result' = NoML
    /\ composite' = {}
    /\ final_result' = NoResult
    /\ UNCHANGED <<ml_enabled, STRICT_GUARDRAILS, ruleVars, serverVars, callVars>>

Next == AnalyzeRuleOnly \/ AnalyzeMLRaised \/ AnalyzeWithML \/ Return

Spec == Init /\ [][Next]_vars

(***************************************************************************)
(* Source text given to the rule-based analyzer                            *)
(*                                                                         *)
(* A text is a sequence of lines; a line is one of the kinds below at a    *)
(* nesting depth (4*depth spaces of indentation).  for, while and def_f    *)
(* open a block; in the brace languages every open block is closed by a    *)
(* line "}" of its own, which carries none of the substrings counted here. *)
(*                                                                         *)
(*  kind      python                      cpp, c, java                     *)
(*  assign    x = 1                       int x = 1;                       *)
(*  info      information = 1             int information = 1;             *)
(*  offset    OFFSET = 1                  int OFFSET = 1;                  *)
(*  for       for i in range(n):          for (int i = 0; i < n; i++) {    *)
(*  while     while x > 0:                while (x > 0) {                  *)
(*  def_f     def f(n):                   int f(int n) {                   *)
(*  call_f    y = f(n)                    int y = f(n);                    *)
(*  return_f  return f(n - 1) + f(n - 2)  return f(n - 1) + f(n - 2);      *)
(*                                                                         *)
(*  kind      javascript                  go                  rust         *)
(*  assign    let x = 1;                  x := 1              let x = 1;   *)
(*  info      let information = 1;        information := 1    let information = 1; *)
(*  offset    const OFFSET = 1;           OFFSET := 1         let OFFSET = 1;      *)
(*  for       for (let i = 0; i < n; i++) {   for i := 0; i < n; i++ {   for i in 0..n {  *)
(*  while     while (x > 0) {             for x > 0 {         while x > 0 {        *)
(*  def_f     function f(n) {             func f(n int) int { fn f(n: i32) -> i32 {  *)
(*  call_f    let y = f(n);               y := f(n)           let y = f(n);        *)
(*  return_f  return f(n - 1) + f(n - 2); return f(n-1) + f(n-2)   return f(n - 1) + f(n - 2);  *)
(***************************************************************************)
\* at most this many lines in a text
MaxLines == 3

Languages == {"python", "cpp", "java", "javascript", "c", "go", "rust"}

Kinds == {"assign", "info", "offset", "for", "while", "def_f", "call_f", "return_f"}

Openers == {"for", "while", "def_f"}

LoopKinds == {"for", "while"}

\* the lines that may follow a text: no deeper than the last line, or one
\* deeper when the last line opens a block
NextLines(c) ==
    IF Len(c) = 0 THEN { [kind |-> k, depth |-> 0] : k \in Kinds }
    ELSE LET last == c[Len(c)]
             top == IF last.kind \in Openers THEN last.depth + 1 ELSE last.depth
         IN  { [kind |-> k, depth |-> d] : k \in Kinds, d \in 0..top }

\* the non-empty texts of at most MaxLines lines
Codes ==
    LET Grow[n \in 0..MaxLines] ==
            IF n = 0 THEN { <<>> }
            ELSE UNION { { Append(c, ln) : ln \in NextLines(c) } : c \in Grow[n - 1] }
    IN  UNION { Grow[n] : n \in 1..MaxLines }

RECURSIVE Sum(_, _)
\* sum of the numbers s[i], s[i+1], ...
Sum(s, i) ==
    IF i > Len(s) THEN 0 ELSE s[i] + Sum(s, i + 1)

\* str.count(needle) on one line of the given kind
LineCount(lang, kind, needle) ==
    CASE needle = "for" ->
           IF kind \in {"info", "for"} \/ (lang = "go" /\ kind = "while") THEN 1 ELSE 0
      [] needle = "while" -> IF kind = "while" /\ lang # "go" THEN 1 ELSE 0
      [] needle = "def" -> IF kind = "def_f" /\ lang = "python" THEN 1 ELSE 0
      [] needle = "return" -> IF kind = "return_f" THEN 1 ELSE 0
      [] needle = "->" -> IF kind = "def_f" /\ lang = "rust" THEN 1 ELSE 0
      [] needle = "in " ->
           IF kind = "for" /\ lang \in {"python", "rust"} THEN 1 ELSE 0
      [] needle = "range(" -> IF kind = "for" /\ lang = "python" THEN 1 ELSE 0
      [] needle = "lower:set" -> IF kind = "offset" THEN 1 ELSE 0
      [] OTHER -> 0

\* code.count(needle); a needle "lower:w" is counted in code.lower()
Count(c, lang, needle) ==
    Sum([i \in 1..Len(c) |-> LineCount(lang, c[i].kind, needle)], 1)

\* needle in code
Contains(c, lang, needle) == Count(c, lang, needle) > 0

(***************************************************************************)
(* Signature tables (ComplexityPattern lists)                              *)
(***************************************************************************)
Sig(d, t, sp, c) ==
    [description |-> d, time_complexity |-> t, space_complexity |-> sp, confidence |-> c]

python_patterns ==
    << Sig("Single loop with range", "O(n)", "O(1)", 900),
       Sig("Single loop over iterable", "O(n)", "O(1)", 800),
       Sig("Nested loops", "O(n^2)", "O(1)", 950),
       Sig("Fibonacci-like recursion", "O(2^n)", "O(n)", 900),
       Sig("Built-in sort", "O(n log n)", "O(1)", 950),
       Sig("Binary search pattern", "O(log n)", "O(1)", 900),
       Sig("Binary search midpoint calculation", "O(log n)", "O(1)", 800),
       Sig("List append", "O(1)", "O(1)", 900),
       Sig("Membership test in list", "O(n)", "O(1)", 800),
       Sig("Membership test in set", "O(1)", "O(n)", 900) >>

cpp_patterns ==
    << Sig("Single for loop", "O(n)", "O(1)", 900),
       Sig("Nested for loops", "O(n^2)", "O(1)", 950),
       Sig("Linked list traversal", "O(n)", "O(1)", 900),
       Sig("Linked list traversal with carry", "O(n)", "O(1)", 900),
       Sig("STL sort", "O(n log n)", "O(1)", 950),
       Sig("Vector declaration", "O(1)", "O(n)", 800),
       Sig("ListNode pointer declaration", "O(1)", "O(1)", 800),
       Sig("ListNode allocation", "O(1)", "O(1)", 800),
       Sig("Linked list value access", "O(1)", "O(1)", 900),
       Sig("Linked list next pointer access", "O(1)", "O(1)", 900) >>

java_patterns ==
    << Sig("Enhanced for loop", "O(n)", "O(1)", 900),
       Sig("Array iteration", "O(n)", "O(1)", 900),
       Sig("Arrays.sort", "O(n log n)", "O(1)", 950),
       Sig("ArrayList declaration", "O(1)", "O(n)", 800) >>

javascript_patterns ==
    << Sig("Array iteration", "O(n)", "O(1)", 900),
       Sig("For...of loop", "O(n)", "O(1)", 900),
       Sig("Array sort with comparator", "O(n log n)", "O(1)", 950),
       Sig("Array push", "O(1)", "O(1)", 900) >>

\* getattr(self, f"{language}_patterns", [])
PatternsOf(lang) ==
    CASE lang = "python" -> python_patterns
      [] lang = "cpp" -> cpp_patterns
      [] lang = "java" -> java_patterns
      [] lang = "javascript" -> javascript_patterns
      [] OTHER -> <<>>

RECURSIVE AdjacentPairs(_, _, _, _, _)
\* re.findall of a two-line pattern: non-overlapping occurrences, left to
\* right, of a line of kind a directly followed by a line of kind b; with
\* inside set the second line must be nested in the first (otherwise a
\* closing brace stands between them)
AdjacentPairs(c, a, b, inside, i) ==
    IF i + 1 > Len(c) THEN 0
    ELSE IF /\ c[i].kind = a
            /\ c[i + 1].kind = b
            /\ (inside => c[i + 1].depth > c[i].depth)
         THEN 1 + AdjacentPairs(c, a, b, inside, i + 2)
         ELSE AdjacentPairs(c, a, b, inside, i + 1)

\* len(re.findall(pattern.pattern, code, re.MULTILINE | re.DOTALL))
MatchCount(c, lang, sig) ==
    LET d == sig.description
        fors == Sum([i \in 1..Len(c) |-> IF c[i].kind = "for" THEN 1 ELSE 0], 1)
    IN  CASE lang = "python" /\ d \in {"Single loop with range",
                                       "Single loop over iterable",
                                       "Membership test in list"} -> fors
          [] lang = "python" /\ d = "Nested loops" ->
               AdjacentPairs(c, "for", "for", FALSE, 1)
          [] lang = "python" /\ d = "Fibonacci-like recursion" ->
               AdjacentPairs(c, "def_f", "return_f", FALSE, 1)
          [] lang = "cpp" /\ d = "Single for loop" -> fors
          [] lang = "cpp" /\ d = "Nested for loops" ->
               AdjacentPairs(c, "for", "for", TRUE, 1)
          [] OTHER -> 0

UnknownResult ==
    [time_complexity |-> "Unknown", space_complexity |-> "Unknown",
     breakdown |-> <<>>, confidence |-> 0]

\* breakdown entries: the message and the number it reports
Entry(what, n) == [what |-> what, n |-> n]

RECURSIVE MatchResults(_, _, _, _)
\* the results list built by the loop of _analyze_patterns
MatchResults(c, lang, patterns, i) ==
    IF i > Len(patterns) THEN <<>>
    ELSE LET n == MatchCount(c, lang, patterns[i])
         IN  (IF n > 0 THEN << [pattern |-> patterns[i], matches |-> n] >> ELSE <<>>)
             \o MatchResults(c, lang, patterns, i + 1)

\* _determine_time_complexity returning the class of the first matched
\* signature instead of the highest one
DetermineTimeComplexity_FirstMatch(results) ==
    IF results = <<>> THEN "Unknown" ELSE results[1].pattern.time_complexity

\* _determine_time_complexity
DetermineTimeComplexity(results) ==
    LET Known == {"O(2^n)", "O(n^2)", "O(n log n)", "O(log n)", "O(n)", "O(1)"}
        complexities ==
            { results[i].pattern.time_complexity : i \in 1..Len(results) } \cap Known
    IN  IF complexities = {} THEN "Unknown"
        ELSE IF "O(2^n)" \in complexities THEN "O(2^n)"
        ELSE IF "O(n^2)" \in complexities THEN "O(n^2)"
        ELSE IF "O(n log n)" \in complexities THEN "O(n log n)"
        ELSE IF "O(log n)" \in complexities THEN "O(log n)"
        ELSE IF "O(n)" \in complexities THEN "O(n)"
        ELSE "O(1)"

\* _determine_space_complexity
DetermineSpaceComplexity(results) ==
    IF \E i \in 1..Len(results) : results[i].pattern.space_complexity = "O(n)"
    THEN "O(n)" ELSE "O(1)"

RECURSIVE MaxConfidence(_, _)
MaxConfidence(results, i) ==
    IF i > Len(results) THEN 0
    ELSE Max(results[i].pattern.confidence, MaxConfidence(results, i + 1))

\* _analyze_patterns
AnalyzePatterns(c, lang, patterns) ==
    LET results == MatchResults(c, lang, patterns, 1)
    IN  IF results = <<>> THEN UnknownResult
        ELSE [time_complexity |-> DetermineTimeComplexity(results),
              space_complexity |-> DetermineSpaceComplexity(results),
              breakdown |-> [i \in 1..Len(results) |->
                               Entry(results[i].pattern.description, results[i].matches)],
              confidence |-> MaxConfidence(results, 1)]

(***************************************************************************)
(* Grammar-aware walk (Python only)                                        *)
(***************************************************************************)
\* ast.parse succeeds: every line that opens a block is followed by a line
\* of its body
Parses(c) ==
    \A i \in 1..Len(c) :
        c[i].kind \in Openers => (i + 1 <= Len(c) /\ c[i + 1].depth = c[i].depth + 1)

\* the line that encloses line i at depth e < c[i].depth
Encloser(c, i, e) ==
    CHOOSE j \in 1..(i - 1) :
        /\ c[j].depth = e
        /\ \A k \in (j + 1)..(i - 1) : c[k].depth > e

\* visit_For / visit_While: loop_depth > 1 after the increment
EnteredInsideLoop(c, i) ==
    \E e \in 0..(c[i].depth - 1) : c[Encloser(c, i, e)].kind \in LoopKinds

\* visit_FunctionDef has appended the name f before line i is visited
DefinedBefore(c, i) == \E j \in 1..(i - 1) : c[j].kind = "def_f"

\* visit_Call: the calls of line i whose name is in function_definitions
RecursiveCallsAt(c, i) ==
    IF ~DefinedBefore(c, i) THEN 0
    ELSE IF c[i].kind = "call_f" THEN 1
    ELSE IF c[i].kind = "return_f" THEN 2
    ELSE 0

\* a visitor kept on the analyzer and used again by the next call
PythonASTAnalyzer_Shared == visitor

\* PythonASTAnalyzer.__init__: every call builds a visitor with zeroed counters
PythonASTAnalyzer == [loops |-> 0, nested_loops |-> 0, recursive_calls |-> 0]

\* PythonASTAnalyzer.visit on a new visitor: the counters after the walk
Walk(c) ==
    LET isLoop(i) == IF c[i].kind \in LoopKinds THEN 1 ELSE 0
        isNested(i) ==
            IF c[i].kind \in LoopKinds /\ EnteredInsideLoop(c, i) THEN 1 ELSE 0
        calls(i) == RecursiveCallsAt(c, i)
    IN  [loops |-> PythonASTAnalyzer.loops + Sum([i \in 1..Len(c) |-> isLoop(i)], 1),
         nested_loops |->
             PythonASTAnalyzer.nested_loops + Sum([i \in 1..Len(c) |-> isNested(i)], 1),
         recursive_calls |->
             PythonASTAnalyzer.recursive_calls + Sum([i \in 1..Len(c) |-> calls(i)], 1)]

\* PythonASTAnalyzer.get_results
GetResults(w) ==
    LET confidence == Min(900, 300 + w.loops * 100 + w.recursive_calls * 200)
    IN  IF w.recursive_calls > 0
        THEN [time_complexity |-> "O(2^n)", space_complexity |-> "O(n)",
              breakdown |-> << Entry("recursive calls", w.recursive_calls) >>,
              confidence |-> confidence]
        ELSE IF w.nested_loops > 0
        THEN [time_complexity |-> "O(n^2)", space_complexity |-> "O(1)",
              breakdown |-> << Entry("nested loops", w.nested_loops) >>,
              confidence |-> confidence]
        ELSE IF w.loops > 0
        THEN [time_complexity |-> "O(n)", space_complexity |-> "O(1)",
              breakdown |-> << Entry("loops", w.loops) >>,
              confidence |-> confidence]
        ELSE [time_complexity |-> "O(1)", space_complexity |-> "O(1)",
              breakdown |-> << Entry("No loops or recursion detected", 0) >>,
              confidence |-> confidence]

\* _analyze_python_ast walking the lines although ast.parse failed
AnalyzePythonAst_Lenient(c) == GetResults(Walk(c))

\* _analyze_python_ast
AnalyzePythonAst(c) == IF Parses(c) THEN GetResults(Walk(c)) ELSE UnknownResult

\* _analyze_regex_based
AnalyzeRegexBased(c, lang) == AnalyzePatterns(c, lang, PatternsOf(lang))

\* _analyze_ast
AnalyzeAst(c, lang) ==
    IF lang = "python" THEN AnalyzePythonAst(c) ELSE AnalyzeRegexBased(c, lang)

\* _combine_analysis
CombineAnalysis(ast_result, pattern_result) ==
    IF ast_result.confidence > pattern_result.confidence
    THEN ast_result ELSE pattern_result

(***************************************************************************)
(* Fallback heuristic scan                                                 *)
(***************************************************************************)
\* lines.index(line): the first line with the same text
FirstIndex(c, i) == CHOOSE j \in 1..i : c[j] = c[i] /\ \A k \in 1..(j - 1) : c[k] # c[i]

\* 'return' in line and '(' in line and ')' in line
ReturnsCall(lang, kind) == kind = "return_f"

\* line.strip().startswith(('for', 'while'))
StartsLoop(lang, kind) == kind \in {"for", "while"}

\* 'for' in prev_line or 'while' in prev_line
HasLoopWord(lang, kind) ==
    LineCount(lang, kind, "for") > 0 \/ LineCount(lang, kind, "while") > 0

\* _fallback_analysis
FallbackAnalysis(c, lang) ==
    LET for_count == Count(c, lang, "for")
        while_count == Count(c, lang, "while")
        def_count == Count(c, lang, "def")
        return_count == Count(c, lang, "return")
        cpp_class_count == Count(c, lang, "class ")
        cpp_public_count == Count(c, lang, "public:")
        cpp_pointer_count == Count(c, lang, "*")
        cpp_arrow_count == Count(c, lang, "->")
        cpp_nullptr_count == Count(c, lang, "nullptr")
        cpp_new_count == Count(c, lang, "new ")
        has_recursion ==
            /\ def_count > 0
            /\ return_count > 0
            /\ \E i \in 1..Len(c) :
                   LineCount(lang, c[i].kind, "return") > 0 /\ ReturnsCall(lang, c[i].kind)
        has_nested_loops ==
            /\ (for_count > 1 \/ while_count > 1)
            /\ \E i \in 1..Len(c) :
                   /\ StartsLoop(lang, c[i].kind)
                   /\ \E j \in 1..(FirstIndex(c, i) - 1) : HasLoopWord(lang, c[j].kind)
        has_loops == for_count > 0 \/ while_count > 0
        has_arrays == \E w \in {"array", "list", "vector", "[]"} :
                          Contains(c, lang, "lower:" \o w)
        has_maps == \E w \in {"map", "dict", "hash", "{}"} :
                        Contains(c, lang, "lower:" \o w)
        has_sets == \E w \in {"set", "hashset"} : Contains(c, lang, "lower:" \o w)
        is_cpp == \/ (cpp_class_count > 0 /\ cpp_public_count > 0)
                  \/ (cpp_pointer_count > 0 /\ cpp_arrow_count > 0)
                  \/ cpp_nullptr_count > 0
                  \/ cpp_new_count > 0
        head ==
            IF has_recursion
            THEN [t |-> "O(2^n)", s |-> "O(n)",
                  b |-> << Entry("Detected recursive function calls", def_count) >>]
            ELSE IF has_nested_loops
            THEN [t |-> "O(n^2)", s |-> "O(1)",
                  b |-> << Entry("Detected nested loops", for_count + while_count) >>]
            ELSE IF has_loops
            THEN [t |-> "O(n)", s |-> "O(1)",
                  b |-> << Entry("Detected loops", for_count + while_count) >>]
            ELSE IF has_arrays \/ has_maps \/ has_sets
            THEN [t |-> "O(1)", s |-> "O(n)",
                  b |-> << Entry("Detected data structures", 0) >>]
            ELSE [t |-> "O(1)", s |-> "O(1)",
                  b |-> << Entry("No loops or data structures detected", 0) >>]
        Opt(cond, what, n) == IF cond THEN << Entry(what, n) >> ELSE <<>>
    IN  [time_complexity |-> head.t,
         space_complexity |-> head.s,
         breakdown |->
             head.b
             \o Opt(for_count > 0, "for loops", for_count)
             \o Opt(while_count > 0, "while loops", while_count)
             \o Opt(def_count > 0, "function definitions", def_count)
             \o Opt(is_cpp /\ cpp_class_count > 0, "C++ class definitions", cpp_class_count)
             \o Opt(is_cpp /\ cpp_pointer_count > 0, "pointer operations", cpp_pointer_count)
             \o Opt(is_cpp /\ cpp_nullptr_count > 0, "nullptr checks", cpp_nullptr_count)
             \o Opt(is_cpp /\ cpp_new_count > 0, "dynamic allocations", cpp_new_count),
         confidence |-> 400]

(***************************************************************************)
(* TimeComplexityAnalyzer.analyze                                          *)
(***************************************************************************)
\* the language-specific block of _generate_suggestions
LanguageHints(c, lang) ==
    LET Opt(cond, hint) == IF cond THEN << hint >> ELSE <<>>
        has(n) == Contains(c, lang, n)
    IN  CASE lang = "python" ->
               Opt(has("in ") /\ ~has("set("), "convert_list_to_set")
               \o Opt(has(".append(") /\ ~has("list comprehension"), "list_comprehension")
               \o Opt(has("range(") /\ has("len("), "enumerate")
          [] lang = "cpp" ->
               Opt(has("for(") /\ has("vector"), "range_based_for")
               \o Opt(has("sort("), "std_sort")
          [] lang = "java" ->
               Opt(has("for(") /\ has("length"), "enhanced_for")
               \o Opt(has("Arrays.sort"), "collections_sort")
          [] lang = "javascript" ->
               Opt(has("for(") /\ has("length"), "for_of")
               \o Opt(has(".sort("), "comparator")
          [] OTHER -> <<>>

\* analyze returning the combined result without consulting the fallback scan
Analyze_NoFallback(c, lang) ==
    LET patterns == PatternsOf(lang)
        ast_analysis == AnalyzeAst(c, lang)
        pattern_analysis == AnalyzePatterns(c, lang, patterns)
        res == CombineAnalysis(ast_analysis, pattern_analysis)
    IN  [time_complexity |-> res.time_complexity,
         space_complexity |-> res.space_complexity,
         breakdown |-> res.breakdown,
         suggestions |-> GenerateSuggestions(res.time_complexity, res.confidence,
                                             LanguageHints(c, lang)),
         confidence |-> res.confidence]

\* analyze (the try block; nothing in it raises on a string)
Analyze(c, lang) ==
    LET patterns == PatternsOf(lang)
        ast_analysis == AnalyzeAst(c, lang)
        pattern_analysis == AnalyzePatterns(c, lang, patterns)
        combined == CombineAnalysis(ast_analysis, pattern_analysis)
        fallback_result == FallbackAnalysis(c, lang)
        res == IF /\ combined.time_complexity = "Unknown"
                  /\ fallback_result.confidence > combined.confidence
               THEN fallback_result ELSE combined
    IN  [time_complexity |-> res.time_complexity,
         space_complexity |-> res.space_complexity,
         breakdown |-> res.breakdown,
         suggestions |-> GenerateSuggestions(res.time_complexity, res.confidence,
                                             LanguageHints(c, lang)),
         confidence |-> res.confidence]

\* the visitor _analyze_python_ast leaves behind: built and walked only for
\* python text that parses
VisitorOf(c, lang) ==
    IF lang = "python" /\ Parses(c) THEN Walk(c) ELSE visitor

\* the rule-based analyzer is constructed; no request yet
InitRule ==
    /\ pc = "idle"
    /\ ml_enabled = FALSE
    /\ STRICT_GUARDRAILS = FALSE
    /\ rule_result = NoRule
    /\ ml_result = NoML
    /\ composite = {}
    /\ final_result = NoResult
    /\ rpc = "idle"
    /\ code = <<>>
    /\ language = "python"
    /\ result = NoRule
    /\ visitor = [loops |-> 0, nested_loops |-> 0, recursive_calls |-> 0]
    /\ NoServer
    /\ NoCall

\* TimeComplexityAnalyzer.analyze(code, language)
RuleAnalyze ==
    /\ rpc = "idle"
    /\ \E c \in Codes, lang \in Languages :
          /\ code' = c
          /\ language' = lang
          /\ result' = Analyze(c, lang)
          /\ visitor' = VisitorOf(c, lang)
    /\ rpc' = "done"
    /\ UNCHANGED <<hybridVars, serverVars, callVars>>

\* the dict is handed to the caller; the analyzer keeps nothing of the call
RuleReturn ==
    /\ rpc = "done"
    /\ rpc' = "idle"
    /\ code' = <<>>
    /\ language' = "python"
    /\ result' = NoRule
    /\ visitor' = [loops |-> 0, nested_loops |-> 0, recursive_calls |-> 0]
    /\ UNCHANGED <<hybridVars, serverVars, callVars>>

NextRule == RuleAnalyze \/ RuleReturn

SpecRule == InitRule /\ [][NextRule]_vars

(***************************************************************************)
(* Two calls in succession on the same analyzer instance (SpecRepeat)      *)
(***************************************************************************)
\* the rule-based analyzer used on its own, as main.py's module-level instance
Standalone == ~ml_enabled /\ ~STRICT_GUARDRAILS

\* TimeComplexityAnalyzer.analyze called again with the text and language of
\* the call that has just returned
RuleAnalyzeAgain ==
    /\ rpc = "done"
    /\ result' = Analyze(code, language)
    /\ visitor' = VisitorOf(code, language)
    /\ rpc' = "again"
    /\ UNCHANGED <<code, language>>
    /\ UNCHANGED <<hybridVars, serverVars, callVars>>

\* the second dict is handed to the caller
RuleReturnAgain ==
    /\ rpc = "again"
    /\ rpc' = "idle"
    /\ code' = <<>>
    /\ language' = "python"
    /\ result' = NoRule
    /\ visitor' = [loops |-> 0, nested_loops |-> 0, recursive_calls |-> 0]
    /\ UNCHANGED <<hybridVars, serverVars, callVars>>

\* HybridTimeComplexityAnalyzer.analyze called again with the same text: the
\* rule-based estimate and the composite flags are those of the text, and
\* predict_complexity, which writes no attribute of the estimator, is asked
\* again exactly when ml_enabled is set; the call ends where the first ended,
\* with its verdict in final_result
AnalyzeAgain ==
    /\ pc = "done"
    /\ final_result' = CombineAnalyses(rule_result,
                                       IF ml_enabled THEN ml_result ELSE NoML,
                                       composite, STRICT_GUARDRAILS)
    /\ pc' = "done"
    /\ UNCHANGED <<ml_enabled, STRICT_GUARDRAILS, rule_result, ml_result, composite>>
    /\ UNCHANGED <<ruleVars, serverVars, callVars>>

\* one analyzer is exercised at a time
NextRepeat ==
    \/ rpc = "idle" /\ AnalyzeRuleOnly
    \/ rpc = "idle" /\ AnalyzeMLRaised
    \/ rpc = "idle" /\ AnalyzeWithML
    \/ rpc = "idle" /\ AnalyzeAgain
    \/ rpc = "idle" /\ Return
    \/ pc = "idle" /\ Standalone /\ RuleAnalyze
    \/ pc = "idle" /\ Standalone /\ RuleAnalyzeAgain
    \/ pc = "idle" /\ Standalone /\ RuleReturn
    \/ pc = "idle" /\ Standalone /\ RuleReturnAgain

SpecRepeat == Init /\ [][NextRepeat]_vars

(***************************************************************************)
(* Properties of the arbitration engine (checked under Spec)               *)
(***************************************************************************)
\* analyze has returned a verdict
Done == pc = "done"

\* the ensemble estimate was available to _combine_analyses
EnsembleAvailable == ml_result.present

\* the ensemble's confidence: the mean of its time and space confidence
EnsembleConfidence ==
    (ml_result.time_confidence + ml_result.space_confidence) \div 2

GuardrailTags == {"rule_plus_guardrail", "guardrail_cpp", "guardrail_enforced"}

\* the arbitration step selected by the confidences the verdict reports
ChosenBranch ==
    IF final_result.ml_confidence >= 800 THEN "ml_high_confidence"
    ELSE IF final_result.ml_confidence < 450 /\ rule_result.confidence >= 600
    THEN "rule_based_fallback"
    ELSE IF final_result.ml_confidence < 450 THEN "uncertain"
    ELSE "ml_higher_confidence"

\* the estimate that step adopts
Chosen ==
    CASE ChosenBranch = "rule_based_fallback" ->
           [time |-> rule_result.time_complexity, space |-> rule_result.space_complexity,
            confidence |-> rule_result.confidence]
      [] ChosenBranch = "uncertain" ->
           [time |-> "Unknown", space |-> "Unknown", confidence |-> 400]
      [] OTHER ->
           [time |-> ml_result.time_complexity, space |-> ml_result.space_complexity,
            confidence |-> final_result.ml_confidence]

\* a correction made in the ensemble-unavailable branch
RuleOverride == ~EnsembleAvailable /\ composite # {}

\* a correction made because the chosen confidence is below 0.5
SoftOverride == EnsembleAvailable /\ composite # {} /\ Chosen.confidence < 500

\* a correction made by strict mode: an override that differs from the class
\* the verdict would otherwise carry
StrictOverride ==
    /\ EnsembleAvailable
    /\ STRICT_GUARDRAILS
    /\ ~SoftOverride
    /\ LET corr == GuardrailCorrections(composite)
       IN  \/ corr.time \notin {None, Chosen.time}
           \/ corr.space \notin {None, Chosen.space}

OverrideApplied == RuleOverride \/ SoftOverride \/ StrictOverride

\* C1 (as stated; violated): a verdict whose time class is Unknown has
\* confidence at most 0.4
C1_UnknownCeiling ==
    (Done /\ final_result.time_complexity = "Unknown")
        => final_result.ensemble_confidence <= 400

\* C2 (as stated; violated): with the ensemble available, binary_search
\* asserted, ensemble confidence below 0.5 and the ensemble's time class not
\* O(log n), the verdict's time class is O(log n) and its tag is a guardrail tag
C2_GuardrailPrecedence ==
    (/\ Done
     /\ EnsembleAvailable
     /\ "binary_search" \in composite
     /\ EnsembleConfidence < 500
     /\ ml_result.time_complexity # "O(log n)")
        => /\ final_result.time_complexity = "O(log n)"
           /\ final_result.analysis_method \in GuardrailTags

\* the case of C3: both estimators are unsure, no flag, strict mode off
C3_Case ==
    /\ Done
    /\ EnsembleAvailable
    /\ EnsembleConfidence < 450
    /\ rule_result.confidence < 600
    /\ ~STRICT_GUARDRAILS
    /\ composite = {}

\* C3: ensemble confidence below 0.45, rule confidence below 0.6, strict mode
\* off and no composite flag give Unknown / Unknown at confidence 0.4, tagged
\* 'uncertain', whatever the two estimators proposed
C3_BothLowUnknown ==
    C3_Case => /\ final_result.time_complexity = "Unknown"
               /\ final_result.space_complexity = "Unknown"
               /\ final_result.ensemble_confidence = 400
               /\ final_result.analysis_method = "uncertain"

C3_Witness ==
    /\ C3_Case
    /\ rule_result.time_complexity # ml_result.time_complexity
    /\ final_result.analysis_method = "uncertain"

\* the case of C4: a confident ensemble, strict mode off
C4_Case ==
    /\ Done
    /\ EnsembleAvailable
    /\ ~STRICT_GUARDRAILS
    /\ EnsembleConfidence >= 800

\* C4: with strict mode off and ensemble confidence at least 0.8 the verdict
\* is the ensemble's classes and confidence, tagged 'ml_high_confidence',
\* for every rule-based estimate and every set of composite flags
C4_HighConfidenceAdopted ==
    C4_Case => /\ final_result.time_complexity = ml_result.time_complexity
               /\ final_result.space_complexity = ml_result.space_complexity
               /\ final_result.ensemble_confidence = EnsembleConfidence
               /\ final_result.analysis_method = "ml_high_confidence"

C4_Witness ==
    /\ C4_Case
    /\ composite # {}
    /\ GuardrailCorrections(composite).time \notin {None, ml_result.time_complexity}
    /\ rule_result.confidence > EnsembleConfidence
    /\ rule_result.time_complexity # ml_result.time_complexity
    /\ final_result.analysis_method = "ml_high_confidence"

\* the case of C5: an unsure ensemble, a confident rule-based estimate
C5_Case ==
    /\ Done
    /\ EnsembleAvailable
    /\ ~STRICT_GUARDRAILS
    /\ EnsembleConfidence < 450
    /\ rule_result.confidence >= 600

C6_Case ==
    /\ Done
    /\ EnsembleAvailable
    /\ EnsembleConfidence >= 450
    /\ EnsembleConfidence < 800
    /\ ~(EnsembleConfidence < 500 /\ composite # {})
    /\ ~STRICT_GUARDRAILS

\* C6: with ensemble confidence in [0.45, 0.8) the verdict adopts the
\* ensemble's classes and confidence unless a guardrail override applies
C6_ModerateAdopted ==
    C6_Case => /\ final_result.time_complexity = ml_result.time_complexity
               /\ final_result.space_complexity = ml_result.space_complexity
               /\ final_result.ensemble_confidence = EnsembleConfidence

C6_Witness ==
    /\ C6_Case
    /\ composite # {}
    /\ rule_result.confidence > EnsembleConfidence
    /\ rule_result.time_complexity # ml_result.time_complexity
    /\ final_result.time_complexity = ml_result.time_complexity

\* the case of C7: no ensemble estimate and no composite flag
C7_Case ==
    /\ Done
    /\ ~EnsembleAvailable
    /\ composite = {}

\* C7: with the ensemble unavailable and no composite flag the verdict is the
\* rule-based estimate verbatim, tagged 'rule_based', ml_confidence 0.0
C7_RuleVerbatim ==
    C7_Case => /\ final_result.time_complexity = rule_result.time_complexity
               /\ final_result.space_complexity = rule_result.space_complexity
               /\ final_result.breakdown = rule_result.breakdown
               /\ final_result.suggestions = rule_result.suggestions
               /\ final_result.ensemble_confidence = rule_result.confidence
               /\ final_result.confidence = rule_result.confidence
               /\ final_result.analysis_method = "rule_based"
               /\ final_result.ml_confidence = 0

\* the prediction raised, the rule-based estimate is below the guardrail floor
C7_Witness ==
    /\ C7_Case
    /\ ml_enabled
    /\ rule_result.confidence < 550
    /\ Len(rule_result.breakdown) = 2
    /\ final_result.analysis_method = "rule_based"

\* C8 (as stated; violated): the tag is one of the six the specification
\* names, and 'guardrail_enforced' whenever an override was applied
C8_SpecTags ==
    Done => /\ final_result.analysis_method \in
                 {"rule_based", "ml_high_confidence", "rule_based_fallback",
                  "uncertain", "ml_moderate_confidence", "guardrail_enforced"}
            /\ (OverrideApplied => final_result.analysis_method = "guardrail_enforced")

\* C8 (amended): without an override the tag is that of the branch that
\* fired, 'rule_based', 'ml_high_confidence', 'rule_based_fallback',
\* 'uncertain' or 'ml_higher_confidence'; with an override it is
\* 'rule_plus_guardrail' (ensemble unavailable), 'guardrail_cpp' (chosen
\* confidence below 0.5) or 'guardrail_enforced' (strict mode)
C8_CodeTags ==
    Done => /\ (RuleOverride => final_result.analysis_method = "rule_plus_guardrail")
            /\ (SoftOverride => final_result.analysis_method = "guardrail_cpp")
            /\ (StrictOverride => final_result.analysis_method = "guardrail_enforced")
            /\ (~OverrideApplied /\ ~EnsembleAvailable
                    => final_result.analysis_method = "rule_based")
            /\ (~OverrideApplied /\ EnsembleAvailable
                    => final_result.analysis_method = ChosenBranch)

C8_Witness ==
    /\ Done
    /\ StrictOverride
    /\ ChosenBranch = "ml_high_confidence"
    /\ final_result.analysis_method = "guardrail_enforced"

\* C9 (as stated; violated): an applied override leaves the confidence at
\* least 0.55, and at least 0.6 under strict mode
C9_GuardrailConfidence ==
    (Done /\ OverrideApplied)
        => /\ final_result.ensemble_confidence >= 550
           /\ (STRICT_GUARDRAILS => final_result.ensemble_confidence >= 600)

(***************************************************************************)
(* Properties of the rule-based analyzer (checked under SpecRule)          *)
(***************************************************************************)
\* the text has no for / while statement
NoLoopConstruct(c) == \A i \in 1..Len(c) : c[i].kind \notin LoopKinds

\* line i lies in the body of a definition of f
InsideDef(c, i) ==
    \E j \in 1..(i - 1) :
        /\ c[j].kind = "def_f"
        /\ c[j].depth < c[i].depth
        /\ \A k \in (j + 1)..i : c[k].depth > c[j].depth

\* no function calls itself
NoRecursion(c) ==
    \A i \in 1..Len(c) : c[i].kind \in {"call_f", "return_f"} => ~InsideDef(c, i)

\* no pattern of the language's table matches the text
NoSignature(c, lang) == MatchResults(c, lang, PatternsOf(lang), 1) = <<>>

\* C10 (as stated; violated): non-empty code with no loop construct, no
\* recursion and no matching signature is O(1) time and O(1) space in every
\* supported language
C10_TrivialIsConstant ==
    (/\ rpc = "done"
     /\ Len(code) > 0
     /\ NoLoopConstruct(code)
     /\ NoRecursion(code)
     /\ NoSignature(code, language))
        => /\ result.time_complexity = "O(1)"
           /\ result.space_complexity = "O(1)"

MatchedClasses(c, lang) ==
    LET m == MatchResults(c, lang, PatternsOf(lang), 1)
    IN  { m[i].pattern.time_complexity : i \in 1..Len(m) }

\* the case of C12: a linear and a quadratic signature match, none of a
\* higher class does
C12_Case ==
    /\ rpc = "done"
    /\ "O(n)" \in MatchedClasses(code, language)
    /\ "O(n^2)" \in MatchedClasses(code, language)
    /\ MatchedClasses(code, language) \cap {"O(2^n)", "O(n^3)", "O(n!)"} = {}

\* C12: when a single-loop (O(n)) signature and a nested-loop (O(n^2))
\* signature both match and no signature of a higher class does, analyze
\* returns time O(n^2), never O(n)
C12_NestedBeatsSingle ==
    C12_Case => result.time_complexity = "O(n^2)"

C12_Witness ==
    /\ C12_Case
    /\ language = "python"
    /\ Len(MatchResults(code, language, PatternsOf(language), 1)) >= 3
    /\ result.time_complexity = "O(n^2)"

\* python text that ast.parse rejects
ParseFails == rpc = "done" /\ language = "python" /\ ~Parses(code)

\* the case of C13: the parse fails and no signature matches
C13_Case == ParseFails /\ NoSignature(code, language)

\* C13: for python text that fails to parse analyze returns a verdict; when in
\* addition no signature matches, the verdict is the fallback scan's and its
\* confidence is at most 0.4
C13_ParseFailureFallsBack ==
    /\ ParseFails => result.time_complexity \in
                         {"O(1)", "O(log n)", "O(n)", "O(n log n)", "O(n^2)", "O(2^n)"}
    /\ C13_Case => /\ result.time_complexity = FallbackAnalysis(code, language).time_complexity
                   /\ result.space_complexity = FallbackAnalysis(code, language).space_complexity
                   /\ result.breakdown = FallbackAnalysis(code, language).breakdown
                   /\ result.confidence = FallbackAnalysis(code, language).confidence
                   /\ result.confidence <= 400

\* an unparseable text on which several lexical cues fire
C13_Witness ==
    /\ C13_Case
    /\ result.time_complexity = "O(n)"
    /\ Len(result.breakdown) >= 3

\* the notes the except branch of _analyze_python_ast puts in the breakdown
ParseFailureNotes == { UnknownResult.breakdown[i].what : i \in DOMAIN UnknownResult.breakdown }

\* C14: whenever python text fails to parse, the breakdown of the verdict has
\* an entry recording that parsing failed and the fallback was used
C14_ParseFailureRecorded ==
    ParseFails => \E i \in DOMAIN result.breakdown : result.breakdown[i].what \in ParseFailureNotes

\* the case of C15: the ensemble is enabled and its prediction raised
C15_Case == Done /\ ml_enabled /\ ~EnsembleAvailable

VerdictClasses == << final_result.time_complexity, final_result.space_complexity >>

\* C18: with the ensemble unavailable the (time, space) of the verdict is
\* fixed by the asserted composite flag whatever the rule-based estimate says,
\* and with no flag it is the rule-based estimate's
C18_FlagFixesClasses ==
    (Done /\ ~EnsembleAvailable) =>
        /\ composite = {"binary_search"} => VerdictClasses = <<"O(log n)", "O(1)">>
        /\ composite = {"merge_sort"} => VerdictClasses = <<"O(n log n)", "O(n)">>
        /\ composite = {"bubble_triangular"} => VerdictClasses = <<"O(n^2)", "O(1)">>
        /\ composite = {"permutations"} => VerdictClasses = <<"O(n!)", "O(n)">>
        /\ composite = {"balanced_tree_loop"} => VerdictClasses = <<"O(n log n)", "O(n)">>
        /\ composite = {"dp_2d_table", "triple_nested_loops"} => VerdictClasses = <<"O(n^3)", "O(n^2)">>
        /\ composite = {} =>
              VerdictClasses = << rule_result.time_complexity, rule_result.space_complexity >>

\* the 2-D table and the triple loop are both seen while the rule-based
\* estimate is linear with constant space
C18_Witness ==
    /\ Done
    /\ ~EnsembleAvailable
    /\ composite = {"dp_2d_table", "triple_nested_loops"}
    /\ rule_result.time_complexity = "O(n)"
    /\ rule_result.space_complexity = "O(1)"
    /\ VerdictClasses = <<"O(n^3)", "O(n^2)">>

\* the elements of a sequence
Range(s) == { s[i] : i \in DOMAIN s }

\* the suggestions _generate_suggestions keys on the time class alone
ClassSuggestions(time_complexity) == Range(GenerateSuggestions(time_complexity, 1000, <<>>))

\* the classes _generate_suggestions has an entry for
SuggestionClasses == {"O(2^n)", "O(n^2)", "O(n log n)", "O(log n)", "O(n)", "O(1)"}

\* C19: in every verdict the class-specific suggestions are those of the
\* verdict's final time class and none keyed on another class is present,
\* also when the final class came from the ensemble or from a guardrail
C19_SuggestionsFollowFinalClass ==
    Done => \A t \in SuggestionClasses :
               IF t = final_result.time_complexity
               THEN ClassSuggestions(t) \subseteq Range(final_result.suggestions)
               ELSE ClassSuggestions(t) \cap Range(final_result.suggestions) = {}

(***************************************************************************)
(* The HTTP server: backend/main.py and backend/ml_integration_simple.py   *)
(*                                                                         *)
(* The handlers are coroutines without an await: each runs to completion   *)
(* on the event loop, and the requests received are answered in any order. *)
(***************************************************************************)
\* at most this many requests are received
MaxRequests == 2

Endpoints == {"/analyze", "/analyze-ml"}

\* the languages of the requests: a supported one and an unsupported one
RequestLanguages == {"python", "ruby"}

\* the texts of the requests: nothing, an assignment, a loop with a body, and
\* an assignment to a name containing "for"
RequestTexts ==
    { <<>>,
      << [kind |-> "assign", depth |-> 0] >>,
      << [kind |-> "for", depth |-> 0], [kind |-> "assign", depth |-> 1] >>,
      << [kind |-> "info", depth |-> 0] >> }

\* request.code: the lines of lines, preceded by blank lines when spaces is set
RequestCodes == [spaces : BOOLEAN, lines : RequestTexts]

\* AnalysisRequest, numbered in order of arrival
Requests(id) ==
    [id : {id}, endpoint : Endpoints, code : RequestCodes, language : RequestLanguages]

\* request.code.strip()
Strip(c) == c.lines

\* the line contains one of the keywords analyze_with_ml looks for
KeyLine(lang, kind) ==
    \E w \in {"for", "while", "if", "def", "return", "sort", "in "} :
        LineCount(lang, kind, w) > 0

\* ' '.join(key_lines[:5]): the key lines of the text, in order
CodeSample(c, lang) ==
    LET key == SelectSeq(c, LAMBDA ln : KeyLine(lang, ln.kind))
    IN  [ i \in 1..Min(5, Len(key)) |-> key[i].kind ]

\* the samples the requests can give to predict_complexity
Samples == { CodeSample(t, "python") : t \in RequestTexts } \ { <<>> }

\* model.predict and max(model.predict_proba) for one sample
ForestOutputs == [label : {"O(1)", "O(n)", "O(2^n)"}, confidence : {400, 1000}]

\* the classifiers fit may produce: random_state is fixed, so the fit has one
\* outcome, which is not known here
Forests == [Samples -> ForestOutputs]

\* SimpleMLAnalyzer.__init__
SimpleMLAnalyzer == [vectorizer |-> "unfitted", model |-> <<>>, is_trained |-> FALSE]

\* SimpleMLAnalyzer.train_simple_model
TrainSimpleModel(a) == [vectorizer |-> "fitted", model |-> forest, is_trained |-> TRUE]

\* SimpleMLAnalyzer.predict_complexity: the analyzer afterwards
PredictAnalyzer(a) == IF ~a.is_trained THEN TrainSimpleModel(a) ELSE a

\* SimpleMLAnalyzer.predict_complexity: (prediction, confidence)
PredictComplexity(a, sample) == PredictAnalyzer(a).model[sample]

\* complexity_map.get(prediction, ...)["space"]
SpaceOfPrediction(label) == IF label = "O(2^n)" THEN "O(n)" ELSE "O(1)"

\* ml_integration_simple.analyze_with_ml: the dict returned
AnalyzeWithMLSimple(c, lang, a) ==
    LET code_sample == CodeSample(c.lines, lang)
        p == PredictComplexity(a, code_sample)
    IN  IF code_sample = <<>>
        THEN [time_complexity |-> "Unknown", space_complexity |-> "Unknown",
              breakdown |-> << Entry("No analyzable patterns found", 0) >>,
              suggestions |-> << "add_structure" >>,
              confidence |-> 0]
        ELSE [time_complexity |-> p.label,
              space_complexity |-> SpaceOfPrediction(p.label),
              breakdown |-> << Entry("ML prediction", p.confidence) >>,
              suggestions |-> << "ml_based", "consider_full_structure" >>,
              confidence |-> p.confidence]

\* ml_integration_simple.analyze_with_ml: ml_analyzer afterwards
AnalyzerAfter(c, lang, a) ==
    IF CodeSample(c.lines, lang) = <<>> THEN a ELSE PredictAnalyzer(a)

\* raise HTTPException(status_code, ...)
Raised(status_code) == [raised |-> TRUE, status |-> status_code, body |-> NoRule]

\* a handler returning a body: the response has status 200
Returned(body) == [raised |-> FALSE, status |-> 200, body |-> body]

\* the two checks at the head of both handlers
Validate(req) ==
    IF Strip(req.code) = <<>> THEN Raised(400)
    ELSE IF req.language \notin Languages THEN Raised(400)
    ELSE Returned(NoRule)

\* the body of the try statement of analyze_code
AnalyzeCodeTry(req) ==
    IF Validate(req).raised THEN Validate(req)
    ELSE Returned(Analyze(req.code.lines, req.language))

\* the body of the try statement of analyze_with_ml_endpoint
AnalyzeMLTry(req, available, a) ==
    IF Validate(req).raised THEN Validate(req)
    ELSE IF available THEN Returned(AnalyzeWithMLSimple(req.code, req.language, a))
    ELSE Returned(Analyze(req.code.lines, req.language))

\* except Exception as e: raise HTTPException(status_code=500, ...);
\* HTTPException is an Exception, so the clause catches the 400 as well
ExceptException(outcome) == IF outcome.raised THEN Raised(500) ELSE outcome

\* what the client receives
Response(outcome) == [status |-> outcome.status, body |-> outcome.body]

\* the module is imported: the estimator is constructed, not trained
InitServer ==
    /\ pc = "idle"
    /\ ml_enabled = FALSE
    /\ STRICT_GUARDRAILS = FALSE
    /\ rule_result = NoRule
    /\ ml_result = NoML
    /\ composite = {}
    /\ final_result = NoResult
    /\ rpc = "idle"
    /\ code = <<>>
    /\ language = "python"
    /\ result = NoRule
    /\ visitor = [loops |-> 0, nested_loops |-> 0, recursive_calls |-> 0]
    /\ ML_AVAILABLE \in BOOLEAN
    /\ forest \in Forests
    /\ ml_analyzer = SimpleMLAnalyzer
    /\ pending = {}
    /\ responses = <<>>
    /\ NoCall

\* a POST request arrives
Receive ==
    /\ Cardinality(pending) + Len(responses) < MaxRequests
    /\ \E req \in Requests(Cardinality(pending) + Len(responses) + 1) :
          pending' = pending \cup {req}
    /\ UNCHANGED <<hybridVars, ruleVars, callVars, ML_AVAILABLE, ml_analyzer, forest, responses>>

\* POST /analyze: analyze_code
AnalyzeCode ==
    \E req \in pending :
        /\ req.endpoint = "/analyze"
        /\ responses' = Append(responses,
               [request |-> req, response |-> Response(ExceptException(AnalyzeCodeTry(req)))])
        /\ pending' = pending \ {req}
        /\ UNCHANGED <<hybridVars, ruleVars, callVars, ML_AVAILABLE, ml_analyzer, forest>>

\* POST /analyze-ml: analyze_with_ml_endpoint
AnalyzeWithMLEndpoint ==
    \E req \in pending :
        /\ req.endpoint = "/analyze-ml"
        /\ responses' = Append(responses,
               [request |-> req,
                response |-> Response(ExceptException(AnalyzeMLTry(req, ML_AVAILABLE, ml_analyzer)))])
        /\ ml_analyzer' =
               IF ~Validate(req).raised /\ ML_AVAILABLE
               THEN AnalyzerAfter(req.code, req.language, ml_analyzer)
               ELSE ml_analyzer
        /\ pending' = pending \ {req}
        /\ UNCHANGED <<hybridVars, ruleVars, callVars, ML_AVAILABLE, forest>>

NextServer == Receive \/ AnalyzeCode \/ AnalyzeWithMLEndpoint

SpecServer == InitServer /\ [][NextServer]_vars

(***************************************************************************)
(* Properties of the server (checked under SpecServer)                     *)
(***************************************************************************)
\* the request asks the simple estimator for a prediction
AsksPrediction(req) ==
    /\ req.endpoint = "/analyze-ml"
    /\ ML_AVAILABLE
    /\ ~Validate(req).raised
    /\ CodeSample(req.code.lines, req.language) # <<>>

\* the request answered by the step, when the step answers one
Answered == responses'[Len(responses')]

\* C16: an estimator that has not been trained, when asked for a prediction,
\* reports time 'Unknown' with confidence 0.0
C16_UntrainedReportsUnknown ==
    [][(/\ Len(responses') = Len(responses) + 1
        /\ ~ml_analyzer.is_trained
        /\ AsksPrediction(Answered.request))
          => /\ Answered.response.status = 200
             /\ Answered.response.body.time_complexity = "Unknown"
             /\ Answered.response.body.confidence = 0]_vars

\* the request is one the handlers reject
Rejected(req) == Strip(req.code) = <<>> \/ req.language \notin Languages

\* C17: a request with empty or whitespace-only code, or with an unsupported
\* language, is answered with HTTP status 400
C17_BadRequestIs400 ==
    \A i \in DOMAIN responses :
        Rejected(responses[i].request) => responses[i].response.status = 400

\* C20: no request writes shared state: the trained estimator state is set
\* before the first request and is not written while requests are served
C20_RequestsWriteNothing ==
    [][ml_analyzer' = ml_analyzer]_vars

(***************************************************************************)
(* _determine_time_complexity called on its own                            *)
(***************************************************************************)
\* at most this many signatures of one table match
MaxMatched == 3

\* the languages that have a signature table
TableLanguages == {"python", "cpp", "java", "javascript"}

\* the results list _analyze_patterns builds when the signatures with the
\* indices in S match: table order, one match each
ResultsOf(lang, S) ==
    LET p == PatternsOf(lang)
        idx == SelectSeq([i \in 1..Len(p) |-> i], LAMBDA i : i \in S)
    IN  [k \in 1..Len(idx) |-> [pattern |-> p[idx[k]], matches |-> 1]]

\* the results lists drawn
MatchedLists ==
    { ResultsOf(lang, S) :
        lang \in TableLanguages,
        S \in { T \in SUBSET (1..10) : Cardinality(T) <= MaxMatched } }

InitSelect ==
    /\ pc = "idle"
    /\ ml_enabled = FALSE
    /\ STRICT_GUARDRAILS = FALSE
    /\ rule_result = NoRule
    /\ ml_result = NoML
    /\ composite = {}
    /\ final_result = NoResult
    /\ rpc = "idle"
    /\ code = <<>>
    /\ language = "python"
    /\ result = NoRule
    /\ visitor = [loops |-> 0, nested_loops |-> 0, recursive_calls |-> 0]
    /\ NoServer
    /\ NoCall

\* _determine_time_complexity(results) is called and returns
SelectTime ==
    /\ selected = "None"
    /\ \E results \in MatchedLists :
          /\ matched' = results
          /\ selected' = DetermineTimeComplexity(results)
    /\ UNCHANGED <<hybridVars, ruleVars, serverVars, signalVars, walkVars>>

\* the caller takes the class
SelectReturn ==
    /\ selected # "None"
    /\ matched' = <<>>
    /\ selected' = "None"
    /\ UNCHANGED <<hybridVars, ruleVars, serverVars, signalVars, walkVars>>

NextSelect == SelectTime \/ SelectReturn

SpecSelect == InitSelect /\ [][NextSelect]_vars

\* the position of a class in O(1) < O(log n) < O(n) < O(n log n) < O(n^2)
\* < O(n^3) < O(2^n) < O(n!)
ClassRank(t) ==
    CASE t = "O(1)" -> 1
      [] t = "O(log n)" -> 2
      [] t = "O(n)" -> 3
      [] t = "O(n log n)" -> 4
      [] t = "O(n^2)" -> 5
      [] t = "O(n^3)" -> 6
      [] t = "O(2^n)" -> 7
      [] t = "O(n!)" -> 8
      [] OTHER -> 0

\* C21: for a non-empty list of matched signatures _determine_time_complexity
\* returns the highest of their time classes under the total order
C21_SelectsMaximum ==
    (selected # "None" /\ matched # <<>>) =>
        /\ \E i \in DOMAIN matched : matched[i].pattern.time_complexity = selected
        /\ \A i \in DOMAIN matched :
              ClassRank(matched[i].pattern.time_complexity) <= ClassRank(selected)

(***************************************************************************)
(* Properties of the grammar-aware walk (checked under SpecRule)           *)
(***************************************************************************)
\* python text that ast.parse accepts, analysed
Walked == rpc = "done" /\ language = "python" /\ Parses(code)

\* C22: for python input on which the walk detects recursion the rule-based
\* estimate is time O(2^n) and space O(n), whichever signatures matched
C22_RecursionWins ==
    (Walked /\ Walk(code).recursive_calls > 0)
        => /\ result.time_complexity = "O(2^n)"
           /\ result.space_complexity = "O(n)"

\* C23: for python input on which the walk finds a nested loop and no
\* recursion, and no matched signature has a time class above O(n^2), the
\* rule-based time class is O(n^2)
C23_NestedLoopIsQuadratic ==
    (/\ Walked
     /\ Walk(code).nested_loops > 0
     /\ Walk(code).recursive_calls = 0
     /\ \A t \in MatchedClasses(code, language) : ClassRank(t) <= ClassRank("O(n^2)"))
        => result.time_complexity = "O(n^2)"

\* C24: the walk counts a call as recursive only if the call lies in the body
\* of a definition of the function called; a call to a function defined
\* earlier, made outside its body, never counts
C24_OnlySelfCallsCount ==
    (Walked /\ NoRecursion(code)) => visitor.recursive_calls = 0

(***************************************************************************)
(* _composite_signals called on its own                                    *)
(*                                                                         *)
(* The code is given by the cues it shows: one cue per regular expression  *)
(* or substring test of _composite_signals.                                *)
(***************************************************************************)
\* at most this many cues are written into one text
MaxCues == 3

\* the languages given: the two of the first branch and two of the other
SignalLanguages == {"cpp", "java", "python", "javascript"}

\* one name per test of _composite_signals, in the order of the source
Cues ==
    {"while_le", "mid_sum", "mid_offset", "bound_plus", "bound_minus",
     "mergeSort_call", "merge_call", "stack_arrays_LR", "vector_LR",
     "java_array_L", "java_array_R",
     "vector_of_vectors", "int_2d_array", "new_2d_array",
     "for_len", "for_i", "for_k", "three_fors",
     "triangular_bound", "fib_return",
     "next_permutation", "swap_elements", "recurse_next",
     "tmp_from_index", "index_assign", "recurse_plus",
     "TreeMap", "TreeSet", "for_paren", "put", "add",
     "size_loop", "while_word", "dp_vector",
     "while_left_le_right", "mid_word", "def_merge", "while_i", "while_j",
     "merge_sort_word", "dp_index_2d", "triangular_range", "swap_word",
     "backtrack_call", "three_range_fors"}

\* the tests a text passes as soon as it passes the test cue: the text a
\* regular expression matches contains the text of the weaker test
Implied(cue) ==
    CASE cue \in {"while_le", "while_left_le_right", "while_i", "while_j"} -> {"while_word"}
      [] cue \in {"mid_sum", "mid_offset", "bound_plus", "bound_minus"} -> {"mid_word"}
      [] cue \in {"for_len", "for_i", "for_k", "three_fors", "triangular_bound", "size_loop"} ->
           {"for_paren"}
      [] cue = "recurse_plus" -> {"recurse_next"}
      [] cue = "swap_elements" -> {"swap_word"}
      [] OTHER -> {}

\* re.search / `in` on the text showing the cues cs
Has(cs, cue) == cue \in cs \/ \E c \in cs : cue \in Implied(c)

\* the branch for cpp and java
SignalsCppJava(cs) ==
    LET binary_search ==
            /\ Has(cs, "while_le")
            /\ (Has(cs, "mid_sum") \/ Has(cs, "mid_offset"))
            /\ (Has(cs, "bound_plus") \/ Has(cs, "bound_minus"))
        merge_sort ==
            /\ Has(cs, "mergeSort_call") /\ Has(cs, "merge_call")
            /\ \/ Has(cs, "stack_arrays_LR")
               \/ Has(cs, "vector_LR")
               \/ (Has(cs, "java_array_L") /\ Has(cs, "java_array_R"))
        dp_2d_table ==
            Has(cs, "vector_of_vectors") \/ Has(cs, "int_2d_array") \/ Has(cs, "new_2d_array")
        dp_triply_nested == Has(cs, "for_len") /\ Has(cs, "for_i") /\ Has(cs, "for_k")
        triple_nested_loops == Has(cs, "three_fors")
        bubble_triangular == Has(cs, "triangular_bound")
        exp_recursive == Has(cs, "fib_return")
        permutations ==
            \/ Has(cs, "next_permutation")
            \/ (Has(cs, "swap_elements") /\ Has(cs, "recurse_next"))
            \/ (Has(cs, "tmp_from_index") /\ Has(cs, "index_assign") /\ Has(cs, "recurse_plus"))
        balanced_tree_loop ==
            /\ (Has(cs, "TreeMap") \/ Has(cs, "TreeSet"))
            /\ Has(cs, "for_paren")
            /\ (Has(cs, "put") \/ Has(cs, "add"))
        linear_scan ==
            /\ Has(cs, "size_loop")
            /\ ~binary_search /\ ~bubble_triangular /\ ~Has(cs, "while_word")
        dp_1d_array == Has(cs, "dp_vector")
    IN  (IF binary_search THEN {"binary_search"} ELSE {})
        \cup (IF merge_sort THEN {"merge_sort"} ELSE {})
        \cup (IF dp_2d_table THEN {"dp_2d_table"} ELSE {})
        \cup (IF dp_triply_nested THEN {"dp_triply_nested"} ELSE {})
        \cup (IF triple_nested_loops THEN {"triple_nested_loops"} ELSE {})
        \cup (IF bubble_triangular THEN {"bubble_triangular"} ELSE {})
        \cup (IF exp_recursive THEN {"exp_recursive"} ELSE {})
        \cup (IF permutations THEN {"permutations"} ELSE {})
        \cup (IF balanced_tree_loop THEN {"balanced_tree_loop"} ELSE {})
        \cup (IF linear_scan THEN {"linear_scan"} ELSE {})
        \cup (IF dp_1d_array THEN {"dp_1d_array"} ELSE {})

\* the else branch: every other language
SignalsGeneric(cs) ==
    (IF Has(cs, "while_left_le_right") /\ Has(cs, "mid_word") THEN {"binary_search"} ELSE {})
    \cup (IF \/ (Has(cs, "def_merge") /\ Has(cs, "while_i") /\ Has(cs, "while_j"))
             \/ Has(cs, "merge_sort_word")
          THEN {"merge_sort"} ELSE {})
    \cup (IF Has(cs, "dp_index_2d") THEN {"dp_2d_table"} ELSE {})
    \cup (IF Has(cs, "triangular_range") THEN {"bubble_triangular"} ELSE {})
    \cup (IF Has(cs, "swap_word") /\ Has(cs, "backtrack_call") THEN {"permutations"} ELSE {})
    \cup (IF Has(cs, "three_range_fors") THEN {"triple_nested_loops"} ELSE {})

\* _composite_signals: the flags set to True
CompositeSignals(cs, lang) ==
    IF lang \in {"cpp", "java"} THEN SignalsCppJava(cs) ELSE SignalsGeneric(cs)

\* the sets of at most MaxCues cues
CueSets ==
    LET Grow[n \in 0..MaxCues] ==
            IF n = 0 THEN { {} }
            ELSE Grow[n - 1] \cup { cs \cup {cue} : cs \in Grow[n - 1], cue \in Cues }
    IN  Grow[MaxCues]

InitSignals ==
    /\ pc = "idle"
    /\ ml_enabled = FALSE
    /\ STRICT_GUARDRAILS = FALSE
    /\ rule_result = NoRule
    /\ ml_result = NoML
    /\ composite = {}
    /\ final_result = NoResult
    /\ rpc = "idle"
    /\ code = <<>>
    /\ language = "python"
    /\ result = NoRule
    /\ visitor = [loops |-> 0, nested_loops |-> 0, recursive_calls |-> 0]
    /\ NoServer
    /\ NoCall

\* _composite_signals(code, language) is called and returns comp
DetectSignals ==
    /\ src_language = "None"
    /\ \E lang \in SignalLanguages, cs \in CueSets :
          /\ cues' = cs
          /\ src_language' = lang
          /\ composite' = CompositeSignals(cs, lang)
    /\ UNCHANGED <<pc, ml_enabled, STRICT_GUARDRAILS, rule_result, ml_result, final_result>>
    /\ UNCHANGED <<ruleVars, serverVars, selectVars, walkVars>>

\* the caller takes comp
SignalsReturn ==
    /\ src_language # "None"
    /\ cues' = {}
    /\ src_language' = "None"
    /\ composite' = {}
    /\ UNCHANGED <<pc, ml_enabled, STRICT_GUARDRAILS, rule_result, ml_result, final_result>>
    /\ UNCHANGED <<ruleVars, serverVars, selectVars, walkVars>>

NextSignals == DetectSignals \/ SignalsReturn

SpecSignals == InitSignals /\ [][NextSignals]_vars

\* the cues a text shows, those it passes by implication included
Shown == { cue \in Cues : Has(cues, cue) }

\* C25: in every language the binary_search flag is set only if the text has
\* a loop with the low <= high condition, a midpoint computation and a bound
\* update to mid + 1 or mid - 1, all three
C25_BinarySearchNeedsThreeCues ==
    (src_language # "None" /\ "binary_search" \in composite)
        => /\ Shown \cap {"while_le", "while_left_le_right"} # {}
           /\ Shown \cap {"mid_sum", "mid_offset"} # {}
           /\ Shown \cap {"bound_plus", "bound_minus"} # {}

\* C26: no composite flag is set by a single cue: whenever a flag is set the
\* text shows at least two distinct cues
C26_NoSingleCueFlag ==
    (src_language # "None" /\ composite # {}) => Cardinality(cues) >= 2

(***************************************************************************)
(* PythonASTAnalyzer stepped through a syntax tree                         *)
(*                                                                         *)
(* The tree is given by its statements in source order with their depth;   *)
(* the walk enters a statement, visits the statements of its body and then *)
(* leaves it.                                                              *)
(***************************************************************************)
\* the trees ast.parse returns for the texts drawn
WalkTrees == { c \in Codes : Parses(c) }

\* visit_For / visit_While up to the call of generic_visit
VisitLoopEnter(w) ==
    LET d == w.loop_depth + 1
    IN  [loops |-> w.loops + 1,
         loop_depth |-> d,
         nested_loops |-> IF d > 1 THEN w.nested_loops + 1 ELSE w.nested_loops]

\* visit_For / visit_While returning without restoring the depth
VisitLoopLeave_Kept(w) == w

\* visit_For / visit_While after generic_visit has returned
VisitLoopLeave(w) == [w EXCEPT !.loop_depth = @ - 1]

\* the body of the innermost loop being visited has no statement left
BodyDone ==
    /\ frames # <<>>
    /\ IF node > Len(tree) THEN TRUE ELSE tree[node].depth <= frames[Len(frames)]

InitWalk ==
    /\ pc = "idle"
    /\ ml_enabled = FALSE
    /\ STRICT_GUARDRAILS = FALSE
    /\ rule_result = NoRule
    /\ ml_result = NoML
    /\ composite = {}
    /\ final_result = NoResult
    /\ rpc = "idle"
    /\ code = <<>>
    /\ language = "python"
    /\ result = NoRule
    /\ visitor = [loops |-> 0, nested_loops |-> 0, recursive_calls |-> 0]
    /\ NoServer
    /\ NoCall

\* analyzer = PythonASTAnalyzer(); analyzer.visit(tree)
StartWalk ==
    /\ node = 0
    /\ \E c \in WalkTrees : tree' = c
    /\ node' = 1
    /\ frames' = <<>>
    /\ walker' = [loops |-> 0, nested_loops |-> 0, loop_depth |-> 0]
    /\ UNCHANGED <<hybridVars, ruleVars, serverVars, selectVars, signalVars>>

\* visit_For / visit_While is entered for the next statement
EnterLoop ==
    /\ node \in 1..Len(tree)
    /\ ~BodyDone
    /\ tree[node].kind \in LoopKinds
    /\ walker' = VisitLoopEnter(walker)
    /\ frames' = Append(frames, tree[node].depth)
    /\ node' = node + 1
    /\ UNCHANGED <<tree, hybridVars, ruleVars, serverVars, selectVars, signalVars>>

\* generic_visit of the innermost loop returns and the visit method ends
LeaveLoop ==
    /\ node > 0
    /\ BodyDone
    /\ walker' = VisitLoopLeave(walker)
    /\ frames' = SubSeq(frames, 1, Len(frames) - 1)
    /\ UNCHANGED <<tree, node, hybridVars, ruleVars, serverVars, selectVars, signalVars>>

\* a statement that is not a loop is visited: the depth is not touched
VisitStatement ==
    /\ node \in 1..Len(tree)
    /\ ~BodyDone
    /\ tree[node].kind \notin LoopKinds
    /\ node' = node + 1
    /\ UNCHANGED <<tree, frames, walker, hybridVars, ruleVars, serverVars, selectVars, signalVars>>

\* visit(tree) returns and the analyzer is dropped
EndWalk ==
    /\ node > Len(tree)
    /\ frames = <<>>
    /\ tree' = <<>>
    /\ node' = 0
    /\ frames' = <<>>
    /\ walker' = [loops |-> 0, nested_loops |-> 0, loop_depth |-> 0]
    /\ UNCHANGED <<hybridVars, ruleVars, serverVars, selectVars, signalVars>>

NextWalk == StartWalk \/ EnterLoop \/ LeaveLoop \/ VisitStatement \/ EndWalk

SpecWalk == InitWalk /\ [][NextWalk]_vars

\* the for / while statements among the first n statements of the tree
LoopsUpTo(n) == { i \in 1..n : tree[i].kind \in LoopKinds }

\* the walk has visited every statement and left every loop
WalkEnded == node > Len(tree) /\ node > 0 /\ frames = <<>>

\* C27: during the walk loop_depth is never negative and is 0 when the walk
\* ends; loops is the number of for / while statements visited, nested_loops
\* the number of those lying in the body of another loop, and nested_loops is
\* below loops whenever loops is positive
C27_DepthCounter ==
    node > 0 =>
        /\ walker.loop_depth >= 0
        /\ walker.loops = Cardinality(LoopsUpTo(node - 1))
        /\ walker.nested_loops =
              Cardinality({ i \in LoopsUpTo(node - 1) : EnteredInsideLoop(tree, i) })
        /\ walker.loops > 0 => walker.nested_loops < walker.loops
        /\ WalkEnded => walker.loop_depth = 0

\* a walk that has ended on a tree with a loop inside a loop
C27_Witness ==
    /\ WalkEnded
    /\ Len(tree) = 3
    /\ walker.loops = 2
    /\ walker.nested_loops = 1
    /\ walker.loop_depth = 0

(***************************************************************************)
(* Properties of strict mode and of the guardrail (checked under Spec)     *)
(***************************************************************************)
\* the case of C28: strict mode with the ensemble available
C28_Case == Done /\ STRICT_GUARDRAILS /\ EnsembleAvailable

\* C28: with strict mode enabled and the ensemble available, a time override
\* given by the composite flags is the final time class and a space override
\* is the final space class, whatever the estimators and their confidences
C28_StrictEnforcesOverride ==
    C28_Case =>
        /\ GuardrailCorrections(composite).time # None
              => final_result.time_complexity = GuardrailCorrections(composite).time
        /\ GuardrailCorrections(composite).space # None
              => final_result.space_complexity = GuardrailCorrections(composite).space

\* a highly confident ensemble is overridden on both axes
C28_Witness ==
    /\ C28_Case
    /\ final_result.ml_confidence >= 800
    /\ composite = {"merge_sort"}
    /\ ml_result.time_complexity = "O(n)"
    /\ ml_result.space_complexity = "O(1)"
    /\ final_result.time_complexity = "O(n log n)"
    /\ final_result.space_complexity = "O(n)"
    /\ final_result.analysis_method = "guardrail_enforced"

(***************************************************************************)
(* Properties of the fallback (checked under SpecRule)                     *)
(***************************************************************************)
\* the result of _combine_analysis inside analyze
CombinedOf(c, lang) ==
    CombineAnalysis(AnalyzeAst(c, lang), AnalyzePatterns(c, lang, PatternsOf(lang)))

\* C29: analyze never returns time 'Unknown': a combined result that is
\* 'Unknown' has confidence 0.0 and is replaced by the fallback result, which
\* has confidence 0.4 and a concrete class
C29_NeverUnknown ==
    rpc = "done" =>
        /\ result.time_complexity # "Unknown"
        /\ CombinedOf(code, language).time_complexity = "Unknown" =>
              /\ CombinedOf(code, language).confidence = 0
              /\ result.time_complexity = FallbackAnalysis(code, language).time_complexity
              /\ result.space_complexity = FallbackAnalysis(code, language).space_complexity
              /\ result.confidence = 400
              /\ result.time_complexity \in {"O(1)", "O(n)", "O(n^2)", "O(2^n)"}

\* a text in a language without a signature table, classed by the fallback
C29_Witness ==
    /\ rpc = "done"
    /\ language = "go"
    /\ CombinedOf(code, language).time_complexity = "Unknown"
    /\ result.time_complexity = "O(n^2)"
    /\ result.confidence = 400

(***************************************************************************)
(* Precedence among the composite flags (checked under Spec)               *)
(***************************************************************************)
\* the if statements of _guardrail_corrections that assign t, in source
\* order, each with the class it assigns
TimeAssignments ==
    << <<"binary_search", "O(log n)">>, <<"merge_sort", "O(n log n)">>,
       <<"dp_triply_nested", "O(n^3)">>, <<"bubble_triangular", "O(n^2)">>,
       <<"permutations", "O(n!)">>, <<"balanced_tree_loop", "O(n log n)">>,
       <<"linear_scan", "O(n)">>, <<"exp_recursive", "O(2^n)">>,
       <<"dp_1d_array", "O(n)">>, <<"triple_nested_loops", "O(n^3)">> >>

\* the positions in TimeAssignments whose flag is asserted
Asserted(comp) == { k \in DOMAIN TimeAssignments : TimeAssignments[k][1] \in comp }

\* the class assigned by the last asserted position, None when there is none
LastAssertedClass(comp) ==
    IF Asserted(comp) = {} THEN None
    ELSE TimeAssignments[CHOOSE k \in Asserted(comp) : \A j \in Asserted(comp) : j <= k][2]

\* C30: with several composite flags asserted the time override is the class
\* of the last asserted flag in the fixed sequence; dp_2d_table never changes
\* the time override; with the ensemble unavailable that class is the verdict's
C30_LastFlagWins ==
    /\ GuardrailCorrections(composite).time = LastAssertedClass(composite)
    /\ GuardrailCorrections(composite \ {"dp_2d_table"}).time = GuardrailCorrections(composite).time
    /\ (Done /\ ~EnsembleAvailable /\ Asserted(composite) # {})
          => final_result.time_complexity = LastAssertedClass(composite)
    /\ (Done /\ ~EnsembleAvailable /\ Asserted(composite) = {})
          => final_result.time_complexity = rule_result.time_complexity
    /\ composite = {"permutations", "balanced_tree_loop"}
          => GuardrailCorrections(composite).time = "O(n log n)"
    /\ composite = {"exp_recursive", "dp_1d_array"}
          => GuardrailCorrections(composite).time = "O(n)"

\* permutations and balanced_tree_loop are both asserted, the rule-based
\* estimate says otherwise, and the verdict carries O(n log n)
C30_Witness ==
    /\ Done
    /\ ~EnsembleAvailable
    /\ composite = {"permutations", "balanced_tree_loop"}
    /\ rule_result.time_complexity = "O(n)"
    /\ final_result.time_complexity = "O(n log n)"

====
